---- MODULE Spec2Model ----
(***************************************************************************)
(* Collaborative editing client of the code playground: the zustand store  *)
(* (useCompilerStore), the EditorPanel effects that drive the WebSocket    *)
(* channel (connect, subscribe, debounced publish, inbound edit listener)  *)
(* and the relay that fans edit messages out to subscribers.               *)
(*                                                                         *)
(* One action is one browser event (a UI handler, a timer, a socket event) *)
(* followed by the React effects it triggers, run to quiescence.           *)
(***************************************************************************)
EXTENDS Integers, Sequences, FiniteSets, TLC

VARIABLES store, panel, relay, now, hist, fs, identity, runs

vars == <<store, panel, relay, now, hist, fs, identity, runs>>

(***************************************************************************)
(* Bounds of the model.                                                    *)
(***************************************************************************)
MaxTime == 2      \* wall clock (Date.now()) runs over 1..MaxTime
MaxTabs == 2      \* tabs a client may hold
MaxConns == 2     \* WebSocket objects a client may create
MaxPending == 2   \* 'open' listeners waiting on one connecting socket
MaxInflight == 2  \* edit frames the relay holds undelivered
MaxStoreTabs == 3 \* tabs the store may hold when driven through its API
MaxTabIds == 3    \* highest value nextTabCounter may take there
MaxRequests == 1  \* requests the filesystem service has not answered yet
MaxReads == 2     \* readFile requests of the explorer in flight
MaxDays == 2      \* calendar dates the wall clock runs over
MaxRuns == 51     \* highest value of the daily run counter
MaxLangConns == 4 \* sockets created while the language selector is used
MaxLangPending == 3 \* 'open' listeners on one socket in those runs

Clients == {"c1", "c2"}
LangIds == {63, 71}
EditContents == {"", "x"}

(***************************************************************************)
(* lib/languageUtils: Judge0 language id -> Monaco language -> file name.  *)
(***************************************************************************)
getMonacoLanguage(id) == IF id = 71 THEN "python" ELSE "javascript"

getDefaultFileNameForMonaco(m) ==
  IF m = "python" THEN [base |-> "main", ext |-> ".py"]
  ELSE [base |-> "main", ext |-> ".js"]

fileNaming(m) ==
  LET n == getDefaultFileNameForMonaco(m) IN n.base \o n.ext

HELLO_WORLD_SNIPPETS(m) == IF m = "python" THEN "hello-py" ELSE "hello-js"

WelcomeSource == "welcome"

(***************************************************************************)
(* Values standing for null / undefined.                                   *)
(***************************************************************************)
NoPath == ""
NoTimer == [path |-> "", content |-> "", conn |-> 0]
NoCleanup == [conn |-> 0, path |-> ""]
NoMsg == [type |-> "", filePath |-> "", content |-> "", clientId |-> "",
          timestamp |-> 0]

\* a field absent from a parsed frame (undefined), and the data of a frame
\* that JSON.parse rejects
Undefined == "<undefined>"
NoTimestamp == 0 - 1
Unparsable == [NoMsg EXCEPT !.type = "<unparsable>"]

\* String(content || "")
StringOrEmpty(x) == IF x = Undefined THEN "" ELSE x

\* (timestamp || 0)
OrZero(ts) == IF ts = NoTimestamp THEN 0 ELSE ts

\* saveStatus: null
NoStatus == ""

Min(a, b) == IF a < b THEN a ELSE b

(***************************************************************************)
(* Tab Store helpers.                                                      *)
(***************************************************************************)
\* state.tabs.findIndex((t) => t.id === id), 1-based; 0 when absent
FindIndex(tabs, id) ==
  IF \E i \in 1..Len(tabs) : tabs[i].id = id
  THEN CHOOSE i \in 1..Len(tabs) :
         tabs[i].id = id /\ \A j \in 1..(i - 1) : tabs[j].id # id
  ELSE 0

\* activeTab?.path || activeTab?.name
CollabKey(t) == IF t.path # NoPath THEN t.path ELSE t.name

ActivePath(st) ==
  LET i == FindIndex(st.tabs, st.activeTabId)
  IN IF i = 0 THEN NoPath ELSE CollabKey(st.tabs[i])

ActiveContent(st) ==
  LET i == FindIndex(st.tabs, st.activeTabId)
  IN IF i = 0 THEN "" ELSE st.tabs[i].content

\* the working state of one client during one event: its store, the refs of
\* EditorPanel, the frames written to sockets, ver, which counts the new
\* 'tabs' arrays made so far (React compares the array by identity), and
\* scheduled, set when the event has armed the debounce timer
World(c) ==
  [st |-> store[c], pn |-> panel[c], out |-> <<>>, ver |-> 0,
   scheduled |-> FALSE]

SetTabs(W, newTabs) ==
  [W EXCEPT !.st.tabs = newTabs, !.ver = @ + 1]

\* state.tabs.map((t) => (t.id === tabId ? { ...t, content } : t))
updateTabContent(W, tabId, content) ==
  SetTabs(W, [i \in 1..Len(W.st.tabs) |->
                IF W.st.tabs[i].id = tabId
                THEN [W.st.tabs[i] EXCEPT !.content = content]
                ELSE W.st.tabs[i]])

setSource(W, s) == [W EXCEPT !.st.source = s]

setUnsavedFile(W, tabId, unsaved) ==
  [W EXCEPT !.st.unsavedFiles =
     IF unsaved THEN @ \cup {tabId} ELSE @ \ {tabId}]

NewTab(id, name, content, custom, lang, path) ==
  [id |-> id, name |-> name, path |-> path, content |-> content,
   isCustomName |-> custom, languageId |-> lang]

createTab(W, name, content, isCustomName, path) ==
  LET st == W.st
      next == st.nextTabCounter + 1
      safeName == IF name # "" THEN name
                  ELSE fileNaming(getMonacoLanguage(st.languageId))
      newTab == NewTab(next, safeName, content, isCustomName,
                       st.languageId, path)
      W1 == SetTabs(W, Append(st.tabs, newTab))
  IN [W1 EXCEPT !.st.activeTabId = next,
                !.st.nextTabCounter = next,
                !.st.source = content]

\* baseName.replace(/(\.[^.]+)?$/, (m) => m ? `_${next}${m}` : `_${next}`)
NumberedName(fn, next) ==
  IF next = 1 THEN fn.base \o fn.ext
  ELSE fn.base \o "_" \o ToString(next) \o fn.ext

addTab(W) ==
  LET st == W.st
      next == st.nextTabCounter + 1
      fn == getDefaultFileNameForMonaco(getMonacoLanguage(st.languageId))
      newTab == NewTab(next, NumberedName(fn, next), "", FALSE,
                       st.languageId, NoPath)
      W1 == SetTabs(W, Append(st.tabs, newTab))
  IN [W1 EXCEPT !.st.activeTabId = next,
                !.st.nextTabCounter = next,
                !.st.source = ""]

selectTab(W, tabId) ==
  LET st == W.st
      i == FindIndex(st.tabs, tabId)
      tab == IF i = 0 THEN st.tabs[1] ELSE st.tabs[i]
  IN [W EXCEPT !.st.activeTabId = tab.id,
               !.st.source = tab.content,
               !.st.languageId = tab.languageId]

setLanguageId(W, id) == [W EXCEPT !.st.languageId = id]

\* a renameTab that always takes the path it is given
renameTabDropsPath(W, tabId, newName, newPath) ==
  SetTabs(W, [i \in 1..Len(W.st.tabs) |->
                IF W.st.tabs[i].id = tabId
                THEN [W.st.tabs[i] EXCEPT
                        !.name = newName, !.isCustomName = TRUE,
                        !.path = IF newPath = Undefined THEN NoPath
                                 ELSE newPath]
                ELSE W.st.tabs[i]])

\* { ...t, name: newName, isCustomName: true, path: newPath ?? t.path }
renameTab(W, tabId, newName, newPath) ==
  SetTabs(W, [i \in 1..Len(W.st.tabs) |->
                IF W.st.tabs[i].id = tabId
                THEN [W.st.tabs[i] EXCEPT
                        !.name = newName, !.isCustomName = TRUE,
                        !.path = IF newPath = Undefined THEN @ ELSE newPath]
                ELSE W.st.tabs[i]])

\* state.tabs.find((t) => t.id === tabId) || state.tabs[0]
FindOrFirst(tabs, tabId) ==
  IF FindIndex(tabs, tabId) = 0 THEN tabs[1] ELSE tabs[FindIndex(tabs, tabId)]

\* state.tabs.filter((t) => t.id !== tabId)
Without(tabs, tabId) ==
  LET Keep(t) == t.id # tabId IN SelectSeq(tabs, Keep)

\* a goToMatch that activates the id it is given without looking it up
goToMatchUnchecked(W, tabId) ==
  [W EXCEPT !.st.activeTabId = tabId]

goToMatch(W, tabId) ==
  LET tab == FindOrFirst(W.st.tabs, tabId)
  IN [W EXCEPT !.st.activeTabId = tab.id, !.st.source = tab.content]

\* a fallback that takes the tab following the removed one
FallbackNext(nextTabs, index) ==
  nextTabs[IF index < Len(nextTabs) THEN index ELSE Len(nextTabs)]

\* nextTabs[Math.max(index - 1, 0)], index being the 1-based position the
\* removed tab had (0: not found)
Fallback(nextTabs, index) ==
  nextTabs[(IF index - 2 > 0 THEN index - 2 ELSE 0) + 1]

\* the state closeTab and deleteTab return once tabId is filtered out
RemoveTab(W, tabId) ==
  LET st == W.st
      nextTabs == Without(st.tabs, tabId)
      index == FindIndex(st.tabs, tabId)
      nextActive == IF tabId = st.activeTabId
                    THEN Fallback(nextTabs, index).id
                    ELSE st.activeTabId
      activeTab == FindOrFirst(nextTabs, nextActive)
      W1 == SetTabs(W, nextTabs)
  IN [W1 EXCEPT !.st.activeTabId = nextActive,
                !.st.source = activeTab.content,
                !.st.languageId = activeTab.languageId]

\* the fresh default tab of closeAll and of deleteTab on the last tab
ResetToBaseTab(W) ==
  LET st == W.st
      baseTab == NewTab(1, fileNaming(getMonacoLanguage(st.languageId)), "",
                        FALSE, st.languageId, NoPath)
      W1 == SetTabs(W, <<baseTab>>)
  IN [W1 EXCEPT !.st.activeTabId = 1,
                !.st.nextTabCounter = 1,
                !.st.source = ""]

closeAll(W) == ResetToBaseTab(W)

\* a deleteTab that resets the tab list but leaves the editor buffer as it is
deleteTabKeepsBuffer(W, tabId) ==
  IF Len(W.st.tabs) = 1 /\ W.st.tabs[1].id = tabId
  THEN [ResetToBaseTab(W) EXCEPT !.st.source = W.st.source]
  ELSE RemoveTab(W, tabId)

deleteTab(W, tabId) ==
  IF Len(W.st.tabs) = 1 /\ W.st.tabs[1].id = tabId
  THEN ResetToBaseTab(W)
  ELSE RemoveTab(W, tabId)

\* a closeTab that treats the last tab as deleteTab does
closeTabCollapses(W, tabId) ==
  IF FindIndex(W.st.tabs, tabId) = 0 THEN W ELSE deleteTab(W, tabId)

closeTab(W, tabId) ==
  IF Len(W.st.tabs) = 1 THEN W
  ELSE IF FindIndex(W.st.tabs, tabId) = 0 THEN W
  ELSE RemoveTab(W, tabId)

\* the characters of a string, one by one
Char(s, i) == SubSeq(s, i, i)

Digits == {"0", "1", "2", "3", "4", "5", "6", "7", "8", "9"}

\* ( \d+)? matches all of a
MatchesNumber(a) ==
  \/ a = ""
  \/ /\ Len(a) >= 2
     /\ Char(a, 1) = " "
     /\ \A i \in 2..Len(a) : Char(a, i) \in Digits

\* (\.[^.]+)? matches all of b
MatchesExtension(b) ==
  \/ b = ""
  \/ /\ Len(b) >= 2
     /\ Char(b, 1) = "."
     /\ \A i \in 2..Len(b) : Char(b, i) # "."

\* / Copy( \d+)?(\.[^.]+)?$/ matches name from position p to its end
CopySuffixAt(name, p) ==
  /\ p + 4 <= Len(name)
  /\ SubSeq(name, p, p + 4) = " Copy"
  /\ \E q \in (p + 4)..Len(name) :
       /\ MatchesNumber(SubSeq(name, p + 5, q))
       /\ MatchesExtension(SubSeq(name, q + 1, Len(name)))

\* (original.name || "untitled").replace(/ Copy( \d+)?(\.[^.]+)?$/, "")
StripCopy(name) ==
  LET n == IF name = "" THEN "untitled" ELSE name
      at == {p \in 1..Len(n) : CopySuffixAt(n, p)}
  IN IF at = {} THEN n
     ELSE SubSeq(n, 1, (CHOOSE p \in at : \A q \in at : p <= q) - 1)

\* `${safeBase} Copy`, then `${safeBase} Copy ${counter}`
CopyName(safeBase, counter) ==
  IF counter = 1 THEN safeBase \o " Copy"
  ELSE safeBase \o " Copy " \o ToString(counter)

TabNames(tabs) == {tabs[i].name : i \in 1..Len(tabs)}

TabIds(tabs) == {tabs[i].id : i \in 1..Len(tabs)}

\* a duplicateTab that does not look at the names taken
duplicateTabNoCheck(W, tabId) ==
  LET st == W.st
      i == FindIndex(st.tabs, tabId)
      original == st.tabs[i]
      next == st.nextTabCounter + 1
      duplicated == NewTab(next, CopyName(StripCopy(original.name), 1),
                           original.content, TRUE, original.languageId,
                           NoPath)
      W1 == SetTabs(W, Append(st.tabs, duplicated))
  IN IF i = 0 THEN W
     ELSE [W1 EXCEPT !.st.activeTabId = next,
                     !.st.nextTabCounter = next,
                     !.st.source = duplicated.content,
                     !.st.languageId = duplicated.languageId]

duplicateTab(W, tabId) ==
  LET st == W.st
      i == FindIndex(st.tabs, tabId)
      original == st.tabs[i]
      next == st.nextTabCounter + 1
      safeBase == StripCopy(original.name)
      taken == TabNames(st.tabs)
      counter == CHOOSE n \in 1..(Len(st.tabs) + 1) :
                   /\ CopyName(safeBase, n) \notin taken
                   /\ \A m \in 1..(n - 1) : CopyName(safeBase, m) \in taken
      duplicated == NewTab(next, CopyName(safeBase, counter),
                           original.content, TRUE, original.languageId,
                           NoPath)
      W1 == SetTabs(W, Append(st.tabs, duplicated))
  IN IF i = 0 THEN W
     ELSE [W1 EXCEPT !.st.activeTabId = next,
                     !.st.nextTabCounter = next,
                     !.st.source = duplicated.content,
                     !.st.languageId = duplicated.languageId]

\* a closeOthers without the fallback to the first tab
closeOthersNoFallback(W, tabId) ==
  LET st == W.st
      i == FindIndex(st.tabs, tabId)
      W1 == SetTabs(W, IF i = 0 THEN <<>> ELSE <<st.tabs[i]>>)
  IN IF i = 0 THEN W1
     ELSE [W1 EXCEPT !.st.activeTabId = st.tabs[i].id,
                     !.st.source = st.tabs[i].content,
                     !.st.languageId = st.tabs[i].languageId]

closeOthers(W, tabId) ==
  LET target == FindOrFirst(W.st.tabs, tabId)
      W1 == SetTabs(W, <<target>>)
  IN [W1 EXCEPT !.st.activeTabId = target.id,
                !.st.source = target.content,
                !.st.languageId = target.languageId]

(***************************************************************************)
(* EditorPanel: sockets and effects.                                       *)
(***************************************************************************)
\* wsRef.current: the socket created last (0: none)
wsRef(pn) == Len(pn.conns)

IsOpen(pn, k) == k # 0 /\ pn.conns[k].readyState = "open"

\* ws.send(JSON.stringify(msg)) on socket k
Send(W, k, msg) == [W EXCEPT !.out = Append(@, [conn |-> k, msg |-> msg])]

SubscribeMsg(p) == [NoMsg EXCEPT !.type = "subscribe", !.filePath = p]
UnsubscribeMsg(p) == [NoMsg EXCEPT !.type = "unsubscribe", !.filePath = p]
UnsubscribeAllMsg == [NoMsg EXCEPT !.type = "unsubscribe-all"]
EditMsg(p, content, clientId, ts) ==
  [type |-> "edit", filePath |-> p, content |-> content,
   clientId |-> clientId, timestamp |-> ts]

\* what a render of EditorPanel sees of the store: the effect dependencies
Snapshot(W) ==
  [ver |-> W.ver, activeTabId |-> W.st.activeTabId, source |-> W.st.source,
   monacoLang |-> getMonacoLanguage(W.st.languageId)]

\* a first effect that renames the first tab whatever its isCustomName flag
ConnectEffectAnyName(W, monacoLang) ==
  LET W1 == [W EXCEPT !.pn.conns =
               Append(@, [readyState |-> "connecting", onOpen |-> <<>>])]
      first == W1.st.tabs[1]
      fname == fileNaming(monacoLang)
  IN IF Len(W1.st.tabs) = 0 THEN W1
     ELSE IF first.name # fname
     THEN IF first.content = ""
          THEN SetTabs(W1, [i \in 1..Len(W1.st.tabs) |->
                              IF i = 1
                              THEN [W1.st.tabs[i] EXCEPT !.name = fname]
                              ELSE W1.st.tabs[i]])
          ELSE createTab(W1, fname, HELLO_WORLD_SNIPPETS(monacoLang),
                         FALSE, NoPath)
     ELSE W1

\* first effect: "Open WebSocket connection once", then keep the default
\* first tab name in sync with the language; monacoLang is the render's value
ConnectEffect(W, monacoLang) ==
  LET W1 == [W EXCEPT !.pn.conns =
               Append(@, [readyState |-> "connecting", onOpen |-> <<>>])]
      first == W1.st.tabs[1]
      fname == fileNaming(monacoLang)
  IN IF Len(W1.st.tabs) = 0 THEN W1
     ELSE IF ~first.isCustomName /\ first.name # fname
     THEN IF first.content = ""
          THEN SetTabs(W1, [i \in 1..Len(W1.st.tabs) |->
                              IF i = 1
                              THEN [W1.st.tabs[i] EXCEPT !.name = fname]
                              ELSE W1.st.tabs[i]])
          ELSE createTab(W1, fname, HELLO_WORLD_SNIPPETS(monacoLang),
                         FALSE, NoPath)
     ELSE W1

\* cleanup returned by the subscribe effect
SubscribeCleanup(W) ==
  LET cl == W.pn.subCleanup
      W1 == IF IsOpen(W.pn, cl.conn) /\ cl.path # NoPath
            THEN Send(W, cl.conn, UnsubscribeMsg(cl.path))
            ELSE W
  IN [W1 EXCEPT !.pn.subCleanup = NoCleanup]

\* a variant that registers the 'open' listener without replacing the ones
\* registered by earlier runs and sends no unsubscribe-all
SubscribeEffectNoDrop(W) ==
  LET k == wsRef(W.pn)
      activePath == ActivePath(W.st)
  IN IF k = 0 THEN W
     ELSE IF ~IsOpen(W.pn, k)
     THEN [W EXCEPT !.pn.conns[k].onOpen = Append(@, activePath)]
     ELSE LET W2 == IF activePath # NoPath
                    THEN Send(W, k, SubscribeMsg(activePath))
                    ELSE W
          IN [W2 EXCEPT !.pn.subCleanup =
                [conn |-> k, path |-> activePath]]

\* body of the subscribe effect, deps [tabs, activeTabId]
SubscribeEffect(W) ==
  LET k == wsRef(W.pn)
      activePath == ActivePath(W.st)
  IN IF k = 0 THEN W
     ELSE IF ~IsOpen(W.pn, k)
     THEN [W EXCEPT !.pn.conns[k].onOpen = Append(@, activePath)]
     ELSE LET W1 == Send(W, k, UnsubscribeAllMsg)
              W2 == IF activePath # NoPath
                    THEN Send(W1, k, SubscribeMsg(activePath))
                    ELSE W1
          IN [W2 EXCEPT !.pn.subCleanup =
                [conn |-> k, path |-> activePath]]

\* cleanup of the debounce effect: clearTimeout(debouncedSendRef.current)
DebounceCleanup(W) == [W EXCEPT !.pn.debouncedSend = NoTimer]

\* a debounce that keeps a timer already pending instead of restarting it
DebounceEffectKeepFirst(W, prevTimer) ==
  LET k == wsRef(W.pn)
      activePath == ActivePath(W.st)
  IN IF ~IsOpen(W.pn, k) THEN W
     ELSE IF activePath = NoPath THEN W
     ELSE IF prevTimer # NoTimer
     THEN [W EXCEPT !.pn.debouncedSend = prevTimer]
     ELSE [W EXCEPT !.pn.debouncedSend =
             [path |-> activePath, content |-> W.st.source, conn |-> k],
                    !.scheduled = TRUE]

\* body of the debounce effect, deps [source, activeTabId, tabs]: the timer
\* closure (sendNow) captures the socket, the path and state.source;
\* prevTimer is the timer the cleanup has just cancelled
DebounceEffect(W, prevTimer) ==
  LET k == wsRef(W.pn)
      activePath == ActivePath(W.st)
  IN IF ~IsOpen(W.pn, k) THEN W
     ELSE IF activePath = NoPath THEN W
     ELSE [W EXCEPT !.pn.debouncedSend =
             [path |-> activePath, content |-> W.st.source, conn |-> k],
                    !.scheduled = TRUE]

\* source-to-tab sync effect, deps [source, activeTabId]; activeTabId and
\* source are the render's values, the tab is read from the live store
SyncEffect(W, activeTabId, source) ==
  LET i == FindIndex(W.st.tabs, activeTabId)
  IN IF i = 0 THEN W
     ELSE IF W.st.tabs[i].content = source THEN W
     ELSE updateTabContent(W, activeTabId, source)

\* React: after a render whose dependencies differ from the previous render's
\* (prev), run the cleanups of the affected effects, then their bodies in
\* declaration order; a body that writes the store causes another render
RECURSIVE RunEffects(_, _)
RunEffects(prev, W) ==
  LET cur == Snapshot(W)
      langCh == prev.monacoLang # cur.monacoLang
      subCh == prev.ver # cur.ver \/ prev.activeTabId # cur.activeTabId
      debCh == subCh \/ prev.source # cur.source
      syncCh == prev.source # cur.source
                  \/ prev.activeTabId # cur.activeTabId
      prevTimer == W.pn.debouncedSend
      Wa == IF subCh THEN SubscribeCleanup(W) ELSE W
      Wb == IF debCh THEN DebounceCleanup(Wa) ELSE Wa
      W1 == IF langCh THEN ConnectEffect(Wb, cur.monacoLang) ELSE Wb
      W2 == IF subCh THEN SubscribeEffect(W1) ELSE W1
      W3 == IF debCh THEN DebounceEffect(W2, prevTimer) ELSE W2
      W4 == IF syncCh THEN SyncEffect(W3, cur.activeTabId, cur.source)
            ELSE W3
  IN IF Snapshot(W4) = cur THEN W4 ELSE RunEffects(cur, W4)

(***************************************************************************)
(* Inbound edit listener (ws 'message').                                   *)
(***************************************************************************)
IsOwnEditNever(clientId, msg) == FALSE

\* if (clientId === CLIENT_ID) return;
IsOwnEdit(clientId, msg) == msg.clientId = clientId

ForActiveFileAlways(st, msg) == ActivePath(st) # NoPath

\* if (!activePath) return; if (activePath === filePath) ...
ForActiveFile(st, msg) ==
  ActivePath(st) # NoPath /\ ActivePath(st) = msg.filePath

IsNewerOrEqual(msg, marker) ==
  OrZero(msg.timestamp) >= OrZero(marker.timestamp)

\* (timestamp || 0) > (lastAppliedRemote.current.timestamp || 0)
IsNewer(msg, marker) ==
  OrZero(msg.timestamp) > OrZero(marker.timestamp)

ApplyRemoteKeepsBuffer(W, msg) ==
  LET W1 == updateTabContent(W, W.st.activeTabId,
                             StringOrEmpty(msg.content))
  IN [W1 EXCEPT !.pn.lastAppliedRemote =
        [filePath |-> msg.filePath, timestamp |-> msg.timestamp]]

\* updateTabContent(activeTabId, content); setSource(content); marker
ApplyRemote(W, msg) ==
  LET W1 == updateTabContent(W, W.st.activeTabId,
                             StringOrEmpty(msg.content))
      W2 == setSource(W1, StringOrEmpty(msg.content))
  IN [W2 EXCEPT !.pn.lastAppliedRemote =
        [filePath |-> msg.filePath, timestamp |-> msg.timestamp]]

\* JSON.parse(evt.data) inside try / catch; if (msg.type === "edit") ...
OnMessage(W, clientId, msg) ==
  IF msg = Unparsable THEN W
  ELSE IF msg.type # "edit" THEN W
  ELSE IF IsOwnEdit(clientId, msg) THEN W
  ELSE IF ~ForActiveFile(W.st, msg) THEN W
  ELSE IF ~IsNewer(msg, W.pn.lastAppliedRemote) THEN W
  ELSE ApplyRemote(W, msg)

(***************************************************************************)
(* The relay: per-socket subscriptions, fan-out of edit frames to the      *)
(* other sockets subscribed to the file.                                   *)
(***************************************************************************)
RelayFrame(r, c, f) ==
  LET k == f.conn
      m == f.msg
  IN IF m.type = "subscribe"
     THEN [r EXCEPT !.subs = @ \cup {<<c, k, m.filePath>>}]
     ELSE IF m.type = "unsubscribe"
     THEN [r EXCEPT !.subs = @ \ {<<c, k, m.filePath>>}]
     ELSE IF m.type = "unsubscribe-all"
     THEN [r EXCEPT !.subs = {s \in @ : ~(s[1] = c /\ s[2] = k)}]
     ELSE IF m.type = "edit"
     THEN [r EXCEPT !.inflight = @ \cup
             {[to |-> s[1], msg |-> m] :
                s \in {t \in r.subs : t[3] = m.filePath
                                        /\ <<t[1], t[2]>> # <<c, k>>}}]
     ELSE r

RECURSIVE RelayProcess(_, _, _)
RelayProcess(r, c, out) ==
  IF out = <<>> THEN r
  ELSE RelayProcess(RelayFrame(r, c, Head(out)), c, Tail(out))

\* the files client c is subscribed to on the relay, over all its sockets
Subscribed(c) == {s[3] : s \in {t \in relay.subs : t[1] = c}}

(***************************************************************************)
(* Initial state: the store as created, EditorPanel mounted once.          *)
(***************************************************************************)
InitStore ==
  [languageId |-> 63,
   source |-> WelcomeSource,
   tabs |-> <<NewTab(1, fileNaming(getMonacoLanguage(63)), WelcomeSource,
                     FALSE, 63, NoPath)>>,
   activeTabId |-> 1,
   nextTabCounter |-> 1,
   unsavedFiles |-> {},
   autoSaveEnabled |-> TRUE,
   isSaving |-> FALSE,
   saveStatus |-> NoStatus]

InitPanel ==
  [conns |-> <<>>,
   lastAppliedRemote |-> [filePath |-> NoPath, timestamp |-> 0],
   debouncedSend |-> NoTimer,
   subCleanup |-> NoCleanup,
   editingTabId |-> 0,
   editingError |-> "",
   notice |-> ""]

\* first render: every effect runs once, in declaration order
Mounted ==
  LET W0 == [st |-> InitStore, pn |-> InitPanel, out |-> <<>>, ver |-> 0,
             scheduled |-> FALSE]
      W1 == ConnectEffect(W0, getMonacoLanguage(W0.st.languageId))
      W2 == SubscribeEffect(W1)
      W3 == DebounceEffect(W2, NoTimer)
  IN SyncEffect(W3, W3.st.activeTabId, W3.st.source)

InitHist ==
  [last |-> [kind |-> "init", client |-> "", msg |-> NoMsg, out |-> <<>>,
              n |-> 0, arg |-> 0, active |-> 0, args |-> <<>>],
   used |-> [c \in Clients |-> TabIds(Mounted.st.tabs)],
   burst |-> [c \in Clients |-> 0],
   published |-> [c \in Clients |-> 0],
   sent |-> [c \in Clients |-> NoMsg],
   rcvd |-> [c \in Clients |-> 0],
   applied |-> [c \in Clients |-> {}]]

\* the filesystem service: the files of the project (path and content), the
\* requests it has received and not yet answered, and the paths that a rename
\* or a delete has taken away
WorkspaceFiles == {[path |-> "src/a.js", content |-> "a"]}

InitFs == [files |-> WorkspaceFiles, pending |-> <<>>, removed |-> {}]

\* window.localStorage "collab-client-id" of the browser of c1 and the
\* CLIENT_ID its page computed when the module was loaded: the first load
\* generated c1 and stored it
NoId == ""

InitIdentity == [stored |-> "c1", CLIENT_ID |-> "c1"]

\* the run limit and the daily run counter of the store, the wall-clock date
\* (new Date().toISOString().slice(0, 10), days counted from 1), the item
\* "esm-run-daily" of localStorage and the isRunning flag of TopBar; a browser
\* that has never run code has no item
NoDate == 0

Unlimited == 0 - 1

InitRuns ==
  [today |-> 1, runLimit |-> Unlimited, dailyRunDate |-> NoDate,
   dailyRunCount |-> 0, daily |-> [date |-> NoDate, count |-> 0],
   isRunning |-> FALSE]

Init ==
  /\ store = [c \in Clients |-> Mounted.st]
  /\ panel = [c \in Clients |-> Mounted.pn]
  /\ relay = [subs |-> {}, inflight |-> {}]
  /\ now = 1
  /\ hist = InitHist
  /\ fs = InitFs
  /\ identity = InitIdentity
  /\ runs = InitRuns

(***************************************************************************)
(* History bookkeeping (not program state).                                *)
(***************************************************************************)
\* last: the event just handled, its frame, the frames it wrote, the value
\* burst had for its client before it, the tab id it was given and, for a
\* closeTab or deleteTab, the tab that was active before it; used: the ids the
\* tabs of c have had so far; burst: the local edits of c since its
\* last publish (2: two or more); published and
\* sent: the edit frames of c that the relay forwarded to another client;
\* rcvd: the frames the relay handed to c; applied: for each file, the marker
\* of the newest remote edit that c has applied to it
NextHist(c, kind, msg, W, r) ==
  LET r2 == RelayProcess(r, c, W.out)
      forwarded == kind = "timer"
                     /\ \E x \in r2.inflight \ r.inflight : x.to # c
      delivered == kind = "message" /\ r.inflight # relay.inflight
      marker == W.pn.lastAppliedRemote
  IN [last |-> [kind |-> kind, client |-> c, msg |-> msg, out |-> W.out,
                n |-> hist.burst[c], arg |-> 0, active |-> 0,
                args |-> <<>>],
      used |-> [hist.used EXCEPT ![c] = @ \cup TabIds(W.st.tabs)],
      burst |-> [hist.burst EXCEPT ![c] =
                   IF kind = "edit" THEN Min(@ + 1, 2)
                   ELSE IF kind = "timer" THEN 0 ELSE @],
      published |-> [hist.published EXCEPT ![c] =
                       IF forwarded THEN Min(@ + 1, 2) ELSE @],
      sent |-> [hist.sent EXCEPT ![c] = IF forwarded THEN msg ELSE @],
      rcvd |-> [hist.rcvd EXCEPT ![c] =
                  IF delivered THEN Min(@ + 1, 2) ELSE @],
      applied |-> [hist.applied EXCEPT ![c] =
                     IF marker = panel[c].lastAppliedRemote THEN @
                     ELSE {a \in @ : a.filePath # marker.filePath}
                            \cup {marker}]]

Within(W) ==
  /\ Len(W.st.tabs) <= MaxTabs
  /\ Len(W.pn.conns) <= MaxConns
  /\ \A k \in 1..Len(W.pn.conns) : Len(W.pn.conns[k].onOpen) <= MaxPending

\* an event of client c: W0 is the state its handler leaves, the effects run
\* against the render the handler started from, the relay takes the frames
Commit(c, kind, msg, r, W0) ==
  \E W \in {RunEffects(Snapshot(World(c)), W0)} :
     /\ Within(W)
     /\ store' = [store EXCEPT ![c] = W.st]
     /\ panel' = [panel EXCEPT ![c] = W.pn]
     /\ relay' = RelayProcess(r, c, W.out)
     /\ Cardinality(relay'.inflight) <= MaxInflight
     /\ hist' = NextHist(c, kind, msg, W, r)
     /\ now' = now
     /\ fs' = fs
     /\ UNCHANGED <<identity, runs>>

(***************************************************************************)
(* Actions.                                                                *)
(***************************************************************************)
\* socket k of client c opens: its once-only 'open' listeners subscribe
RECURSIVE FireOnOpen(_, _, _)
FireOnOpen(W, k, paths) ==
  IF paths = <<>> THEN W
  ELSE FireOnOpen(IF Head(paths) # NoPath
                  THEN Send(W, k, SubscribeMsg(Head(paths)))
                  ELSE W,
                  k, Tail(paths))

ConnOpen(c, k) ==
  /\ k \in 1..Len(panel[c].conns)
  /\ panel[c].conns[k].readyState = "connecting"
  /\ LET W0 == [World(c) EXCEPT !.pn.conns[k] =
                  [readyState |-> "open", onOpen |-> <<>>]]
     IN Commit(c, "open", NoMsg, relay,
               FireOnOpen(W0, k, panel[c].conns[k].onOpen))

\* Editor onChange(v)
LocalEdit(c, v) ==
  /\ v # store[c].source
  /\ LET W1 == setSource(World(c), v)
         W2 == updateTabContent(W1, W1.st.activeTabId, v)
         W3 == setUnsavedFile(W2, W2.st.activeTabId, TRUE)
     IN Commit(c, "edit", NoMsg, relay, W3)

\* handleSelectTab(tabId)
SelectTab(c, tabId) ==
  /\ \E i \in 1..Len(store[c].tabs) : store[c].tabs[i].id = tabId
  /\ tabId # store[c].activeTabId
  /\ Commit(c, "select", NoMsg, relay, selectTab(World(c), tabId))

\* handleAddTab
AddTab(c) == Commit(c, "add", NoMsg, relay, addTab(World(c)))

\* TopBar handleLanguageChange
ChangeLanguage(c, id) ==
  /\ id # store[c].languageId
  /\ Commit(c, "language", NoMsg, relay, setLanguageId(World(c), id))

\* a publish that reads the content of the first tab instead of the buffer
\* captured when the timer was armed
sendNowFirstTab(W, t, clientId, ts) ==
  Send(W, t.conn, EditMsg(t.path, W.st.tabs[1].content, clientId, ts))

\* sendNow: the closure of timer t sends the path and buffer it captured,
\* stamped with CLIENT_ID and Date.now()
sendNow(W, t, clientId, ts) ==
  Send(W, t.conn, EditMsg(t.path, t.content, clientId, ts))

\* the debounce timer expires
TimerFire(c) ==
  /\ panel[c].debouncedSend # NoTimer
  /\ LET t == panel[c].debouncedSend
         W0 == [World(c) EXCEPT !.pn.debouncedSend = NoTimer]
         W1 == sendNow(W0, t, c, now)
     IN Commit(c, "timer", W1.out[Len(W1.out)].msg, relay, W1)

\* the relay hands an edit frame to a socket of client c
Deliver(c, x) ==
  /\ x \in relay.inflight
  /\ x.to = c
  /\ Commit(c, "message", x.msg,
            [relay EXCEPT !.inflight = @ \ {x}],
            OnMessage(World(c), c, x.msg))

\* frames a socket may receive from any peer or relay
InboundPaths == {"main.js", "main_2.js"}
InboundContents == {"p"}
InboundMsgs ==
  {EditMsg(p, s, id, ts) : p \in InboundPaths, s \in InboundContents,
                           id \in Clients, ts \in 1..MaxTime}

\* frames that are not well-formed edit messages: data that is not JSON, and
\* an edit message of a peer with one of the four fields absent
MalformedMsgs ==
  LET m == EditMsg("main.js", "p", "c2", MaxTime)
  IN {Unparsable,
      [m EXCEPT !.filePath = Undefined],
      [m EXCEPT !.content = Undefined],
      [m EXCEPT !.clientId = Undefined],
      [m EXCEPT !.timestamp = NoTimestamp]}

\* a socket of client c that is open gets a 'message' event
Receive(c, m) ==
  /\ m \in InboundMsgs \cup MalformedMsgs
  /\ {k \in 1..Len(panel[c].conns) : IsOpen(panel[c], k)} # {}
  /\ Commit(c, "message", m, relay, OnMessage(World(c), c, m))

Tick ==
  /\ now < MaxTime
  /\ now' = now + 1
  /\ hist' = [hist EXCEPT !.last =
                [kind |-> "tick", client |-> "", msg |-> NoMsg,
                 out |-> <<>>, n |-> 0, arg |-> 0, active |-> 0,
                 args |-> <<>>]]
  /\ UNCHANGED <<store, panel, relay, fs, identity, runs>>

\* the events of one browser tab, its inbound frames chosen by the environment
ClientNext(c) ==
  \/ \E k \in 1..MaxConns : ConnOpen(c, k)
  \/ \E v \in EditContents : LocalEdit(c, v)
  \/ \E t \in 1..MaxTabs : SelectTab(c, t)
  \/ AddTab(c)
  \/ \E id \in LangIds : ChangeLanguage(c, id)
  \/ TimerFire(c)
  \/ \E m \in InboundMsgs : Receive(c, m)
  \/ \E m \in MalformedMsgs : Receive(c, m)

Next == ClientNext("c1")

Spec == Init /\ [][Next]_vars

\* two browser tabs editing the same file through the relay
CollabContents == {"x", "y"}

CollabNext ==
  \/ \E c \in Clients : ConnOpen(c, 1)
  \/ \E c \in Clients, v \in CollabContents : LocalEdit(c, v)
  \/ \E c \in Clients : TimerFire(c)
  \/ \E c \in Clients, x \in relay.inflight : Deliver(c, x)
  \/ Tick

SpecCollab == Init /\ [][CollabNext]_vars

(***************************************************************************)
(* The Tab Store driven through its API, with ids that may match no tab.   *)
(***************************************************************************)
ArbitraryIds == 0..MaxTabIds
CreateNames == {""}
StoreContents == {"s"}

\* one call of a store action by client c with tab id arg and further
\* arguments args: W is the state set() is given
StoreCall(c, kind, arg, args, W) ==
  /\ Len(W.st.tabs) <= MaxStoreTabs
  /\ W.st.nextTabCounter <= MaxTabIds
  /\ store' = [store EXCEPT ![c] = W.st]
  /\ hist' = [hist EXCEPT
                !.last = [kind |-> kind, client |-> c, msg |-> NoMsg,
                          out |-> <<>>, n |-> 0, arg |-> arg,
                          active |-> IF kind \in {"closeTab", "deleteTab"}
                                     THEN store[c].activeTabId ELSE 0,
                          args |-> args],
                !.used[c] = @ \cup TabIds(W.st.tabs)]
  /\ UNCHANGED <<panel, relay, now, fs, identity, runs>>

StoreOp(c, kind, arg, W) == StoreCall(c, kind, arg, <<>>, W)

StoreAddTab(c) == StoreOp(c, "addTab", 0, addTab(World(c)))

StoreCreateTab(c, name) ==
  StoreOp(c, "createTab", 0, createTab(World(c), name, "", name # "", NoPath))

StoreSelectTab(c, id) == StoreOp(c, "selectTab", id, selectTab(World(c), id))

StoreDuplicateTab(c, id) ==
  StoreOp(c, "duplicateTab", id, duplicateTab(World(c), id))

StoreCloseTab(c, id) == StoreOp(c, "closeTab", id, closeTab(World(c), id))

StoreCloseOthers(c, id) ==
  StoreOp(c, "closeOthers", id, closeOthers(World(c), id))

StoreCloseAll(c) == StoreOp(c, "closeAll", 0, closeAll(World(c)))

StoreDeleteTab(c, id) == StoreOp(c, "deleteTab", id, deleteTab(World(c), id))

StoreGoToMatch(c, id) == StoreOp(c, "goToMatch", id, goToMatch(World(c), id))

StoreUpdateTabContent(c, id, v) ==
  StoreOp(c, "updateTabContent", id, updateTabContent(World(c), id, v))

StoreSetLanguageId(c, id) ==
  StoreOp(c, "setLanguageId", 0, setLanguageId(World(c), id))

RenameNames == {"r.py"}
RenamePaths == {Undefined, "d/r.py"}

StoreRenameTab(c, id, newName, newPath) ==
  StoreCall(c, "renameTab", id, <<newName, newPath>>,
            renameTab(World(c), id, newName, newPath))

TabsNext ==
  \/ StoreAddTab("c1")
  \/ \E name \in CreateNames : StoreCreateTab("c1", name)
  \/ \E id \in ArbitraryIds : StoreSelectTab("c1", id)
  \/ \E id \in ArbitraryIds : StoreDuplicateTab("c1", id)
  \/ \E id \in ArbitraryIds : StoreCloseTab("c1", id)
  \/ \E id \in ArbitraryIds : StoreCloseOthers("c1", id)
  \/ StoreCloseAll("c1")
  \/ \E id \in ArbitraryIds : StoreDeleteTab("c1", id)
  \/ \E id \in ArbitraryIds : StoreGoToMatch("c1", id)
  \/ \E id \in ArbitraryIds, v \in StoreContents :
       StoreUpdateTabContent("c1", id, v)
  \/ \E id \in LangIds : StoreSetLanguageId("c1", id)

SpecTabs == Init /\ [][TabsNext]_vars

\* the Tab Store with renameTab among the calls
RenameNext ==
  \/ StoreAddTab("c1")
  \/ \E id \in ArbitraryIds : StoreSelectTab("c1", id)
  \/ \E id \in ArbitraryIds, v \in StoreContents :
       StoreUpdateTabContent("c1", id, v)
  \/ \E id \in ArbitraryIds : StoreCloseTab("c1", id)
  \/ \E id \in ArbitraryIds, newName \in RenameNames,
        newPath \in RenamePaths :
       StoreRenameTab("c1", id, newName, newPath)

SpecRename == Init /\ [][RenameNext]_vars

(***************************************************************************)
(* File lifecycle: saving, renaming, deleting, creating and opening files  *)
(* through the filesystem service.                                         *)
(***************************************************************************)
\* rawPath.startsWith("/") ? rawPath.slice(1) : rawPath
StripSlash(p) ==
  IF Len(p) >= 1 /\ Char(p, 1) = "/" THEN SubSeq(p, 2, Len(p)) ELSE p

\* the position of the last "/" of p (0: none)
LastSlash(p) ==
  LET at == {i \in 1..Len(p) : Char(p, i) = "/"}
  IN IF at = {} THEN 0 ELSE CHOOSE i \in at : \A j \in at : j <= i

\* path.split("/").pop()
BaseName(p) == SubSeq(p, LastSlash(p) + 1, Len(p))

\* the service: the file at path p, if any
FileExists(f, p) == \E x \in f.files : x.path = p

FileContent(f, p) == (CHOOSE x \in f.files : x.path = p).content

WriteFile(f, p, content) ==
  [f EXCEPT !.files = {x \in @ : x.path # p}
                        \cup {[path |-> p, content |-> content]},
            !.removed = @ \ {p}]

RemoveFile(f, p) ==
  [f EXCEPT !.files = {x \in @ : x.path # p}, !.removed = @ \cup {p}]

\* the service renames p to newName in the same folder
RenamedPath(p, newName) == SubSeq(p, 1, LastSlash(p)) \o newName

MoveFile(f, p, newName) ==
  WriteFile(RemoveFile(f, p), RenamedPath(p, newName), FileContent(f, p))

\* a request the service has not answered yet
Request(op, origin, tabId, path, content, newName) ==
  [op |-> op, origin |-> origin, tab |-> tabId, path |-> path,
   content |-> content, newName |-> newName]

Ask(f, r) == [f EXCEPT !.pending = Append(@, r)]

\* the service answers its k-th outstanding request
Answer(f, k) ==
  [f EXCEPT !.pending = SubSeq(@, 1, k - 1) \o SubSeq(@, k + 1, Len(@))]

\* an event of client c that may talk to the filesystem service: W0 is the
\* state its handler leaves and f the state of the service
CommitFs(c, kind, arg, args, W0, f) ==
  \E W \in {RunEffects(Snapshot(World(c)), W0)} :
     /\ Within(W)
     /\ Len(f.pending) <= MaxRequests
     /\ store' = [store EXCEPT ![c] = W.st]
     /\ panel' = [panel EXCEPT ![c] = W.pn]
     /\ relay' = RelayProcess(relay, c, W.out)
     /\ hist' = [NextHist(c, kind, NoMsg, W, relay) EXCEPT
                   !.last.arg = arg, !.last.args = args]
     /\ now' = now
     /\ fs' = f
     /\ UNCHANGED <<identity, runs>>

setIsSaving(W, v) == [W EXCEPT !.st.isSaving = v]

setSaveStatus(W, v) == [W EXCEPT !.st.saveStatus = v]

\* the request of a tick of the auto-save interval
TickRequest(st) ==
  LET tab == st.tabs[FindIndex(st.tabs, st.activeTabId)]
  IN Request("save", "auto", st.activeTabId, StripSlash(CollabKey(tab)),
             tab.content, "")

\* auto-save effect, tick: skip unless the active tab is flagged unsaved
AutoSaveTick(c) ==
  LET st == store[c]
      need == st.activeTabId \in st.unsavedFiles
  IN /\ st.autoSaveEnabled
     /\ IF need /\ FindIndex(st.tabs, st.activeTabId) # 0
        THEN CommitFs(c, "autosave", st.activeTabId, <<>>,
                      setSaveStatus(setIsSaving(World(c), TRUE), NoStatus),
                      Ask(fs, TickRequest(st)))
        ELSE CommitFs(c, "autosave", st.activeTabId, <<>>, World(c), fs)

\* handleSave (Ctrl+S, save button): saves the editor buffer
ManualSave(c) ==
  LET st == store[c]
      i == FindIndex(st.tabs, st.activeTabId)
  IN /\ st.source # ""
     /\ i # 0
     /\ CommitFs(c, "save", st.activeTabId, <<>>,
                 setSaveStatus(setIsSaving(World(c), TRUE), NoStatus),
                 Ask(fs, Request("save", "manual", st.activeTabId,
                                 StripSlash(CollabKey(st.tabs[i])),
                                 st.source, "")))

\* saveFile resolved with success: status, flag, finally
SaveSucceeded(W, r) ==
  setIsSaving(setUnsavedFile(setSaveStatus(W, "success"), r.tab, FALSE),
              FALSE)

\* saveFile rejected: status, finally
SaveFailed(W, r) == setIsSaving(setSaveStatus(W, "error"), FALSE)

\* saveFile resolved without the success flag: finally only
SaveRefused(W, r) == setIsSaving(W, FALSE)

\* how the service may answer a save: resolved with the success flag, resolved
\* without it, rejected
SaveOutcomes == {"saved", "saveRefused", "saveFailed"}

SaveResponse(c, k, outcome) ==
  LET r == fs.pending[k]
      args == <<r.path, r.content, r.origin>>
  IN /\ k \in 1..Len(fs.pending)
     /\ r.op = "save"
     /\ CASE outcome = "saved" ->
               CommitFs(c, outcome, r.tab, args, SaveSucceeded(World(c), r),
                        WriteFile(Answer(fs, k), r.path, r.content))
          [] outcome = "saveRefused" ->
               CommitFs(c, outcome, r.tab, args, SaveRefused(World(c), r),
                        Answer(fs, k))
          [] outcome = "saveFailed" ->
               CommitFs(c, outcome, r.tab, args, SaveFailed(World(c), r),
                        Answer(fs, k))

\* setTimeout(() => setSaveStatus(null), ...)
ClearStatus(c) ==
  /\ store[c].saveStatus # NoStatus
  /\ CommitFs(c, "clearStatus", 0, <<>>,
              setSaveStatus(World(c), NoStatus), fs)

\* handleFilePreview once readFile has answered: f is the file read
OpenFile(W, f) ==
  LET tabs == W.st.tabs
      fileName == BaseName(f.path)
      Opened(t) == IF t.path # NoPath THEN t.path = f.path
                   ELSE t.name = fileName
      at == {i \in 1..Len(tabs) : Opened(tabs[i])}
      opened == tabs[CHOOSE i \in at : \A j \in at : i <= j]
  IN IF at # {}
     THEN updateTabContent(selectTab(W, opened.id), opened.id, f.content)
     ELSE createTab(W, fileName, f.content, TRUE, f.path)

OpenFromExplorer(c, f) ==
  /\ f \in fs.files
  /\ CommitFs(c, "preview", 0, <<f.path, f.content>>, OpenFile(World(c), f), fs)

\* what the user types while files are saved and opened
FileEdits == {"x"}

FilesNext ==
  \/ ConnOpen("c1", 1)
  \/ \E v \in FileEdits : LocalEdit("c1", v)
  \/ \E t \in 1..MaxTabs : SelectTab("c1", t)
  \/ AddTab("c1")
  \/ AutoSaveTick("c1")
  \/ ManualSave("c1")
  \/ \E k \in 1..MaxRequests, o \in SaveOutcomes : SaveResponse("c1", k, o)
  \/ ClearStatus("c1")
  \/ \E f \in fs.files : OpenFromExplorer("c1", f)

SpecFiles == Init /\ [][FilesNext]_vars

(***************************************************************************)
(* File lifecycle: renaming, deleting and creating files from the tab      *)
(* strip and from the file explorer.                                       *)
(***************************************************************************)
Lowers == "abcdefghijklmnopqrstuvwxyz"

Uppers == "ABCDEFGHIJKLMNOPQRSTUVWXYZ"

Whitespace == {" ", "\t", "\n", "\r"}

\* [a-z0-9] under the i flag
IsAlnum(ch) ==
  \/ ch \in Digits
  \/ \E i \in 1..Len(Lowers) : ch = Char(Lowers, i) \/ ch = Char(Uppers, i)

ToLowerChar(ch) ==
  LET at == {i \in 1..Len(Uppers) : ch = Char(Uppers, i)}
  IN IF at = {} THEN ch ELSE Char(Lowers, CHOOSE i \in at : TRUE)

RECURSIVE toLowerCase(_)
toLowerCase(s) ==
  IF Len(s) = 0 THEN ""
  ELSE ToLowerChar(Char(s, 1)) \o toLowerCase(SubSeq(s, 2, Len(s)))

RECURSIVE trim(_)
trim(s) ==
  IF Len(s) = 0 THEN ""
  ELSE IF Char(s, 1) \in Whitespace THEN trim(SubSeq(s, 2, Len(s)))
  ELSE IF Char(s, Len(s)) \in Whitespace THEN trim(SubSeq(s, 1, Len(s) - 1))
  ELSE s

\* name.match(/\.([a-z0-9]+)$/i): the group, "" when there is no match
ExtMatch(name) ==
  LET dots == {i \in 1..Len(name) : Char(name, i) = "."}
      d == CHOOSE i \in dots : \A j \in dots : j <= i
  IN IF dots # {} /\ d < Len(name)
        /\ \A i \in (d + 1)..Len(name) : IsAlnum(Char(name, i))
     THEN SubSeq(name, d + 1, Len(name))
     ELSE ""

allowedExts ==
  {"js", "jsx", "ts", "tsx", "py", "java", "c", "cpp", "rs", "go", "html",
   "css", "json", "md", "txt", "sh", "bash", "yml", "yaml"}

\* the checks on a trimmed name before a request: the error, "" when it passes
ValidateName(name) ==
  IF name = "" THEN "Please provide a name"
  ELSE IF ExtMatch(name) = "" THEN "File extension required"
  ELSE IF toLowerCase(ExtMatch(name)) \notin allowedExts
  THEN "Unsupported extension"
  ELSE ""

\* the checks of the header input of the explorer
ValidateHeaderName(name) ==
  IF ExtMatch(name) = "" THEN "File extension required" ELSE ""

\* what the tab strip renders for each tab: the inline input for the tab being
\* renamed, the name for any other; no element renders editingError
TabStrip(st, pn) ==
  [i \in 1..Len(st.tabs) |->
     IF pn.editingTabId = st.tabs[i].id THEN "<input>" ELSE st.tabs[i].name]

\* the texts in front of the user: the tab strip and the last toast or alert
Visible(st, pn) == {TabStrip(st, pn)[i] : i \in 1..Len(st.tabs)} \cup {pn.notice}

setEditingError(W, e) == [W EXCEPT !.pn.editingError = e]

handleCancelInlineRename(W) ==
  [W EXCEPT !.pn.editingTabId = 0, !.pn.editingError = ""]

\* toast.push(...), alert(...): what the handler of the last event told the
\* user
notify(W, text) == [W EXCEPT !.pn.notice = text]

Fresh(c) == notify(World(c), "")

handleStartInlineRename(c, tabId) ==
  /\ FindIndex(store[c].tabs, tabId) # 0
  /\ CommitFs(c, "startRename", tabId, <<>>,
              [Fresh(c) EXCEPT !.pn.editingTabId = tabId,
                               !.pn.editingError = ""], fs)

\* Enter in the inline input of the tab being renamed, value typed
handleConfirmInlineRename(c, value) ==
  LET tabId == panel[c].editingTabId
      i == FindIndex(store[c].tabs, tabId)
      trimmed == trim(value)
      err == ValidateName(trimmed)
  IN /\ i # 0
     /\ IF err # ""
        THEN CommitFs(c, "confirmRename", tabId, <<value>>,
                      setEditingError(Fresh(c), err), fs)
        ELSE CommitFs(c, "confirmRename", tabId, <<value>>, Fresh(c),
                      Ask(fs, Request("rename", "tab", tabId,
                                      CollabKey(store[c].tabs[i]), "",
                                      trimmed)))

\* renameFile resolved: renameTab with the path of the response, cancel
RenameSucceeded(W, r, newPath) ==
  handleCancelInlineRename(renameTab(W, r.tab, r.newName, newPath))

\* renameFile rejected
RenameFailed(W, r) == setEditingError(W, "server error")

\* the service answers a rename: it succeeds only for a file that exists and
\* a name that is free
RenameResponse(c, k, ok) ==
  LET r == fs.pending[k]
      newPath == RenamedPath(r.path, r.newName)
      args == <<r.path, r.newName, r.origin>>
  IN /\ k \in 1..Len(fs.pending)
     /\ r.op = "rename"
     /\ IF ok
        THEN /\ FileExists(fs, r.path)
             /\ ~FileExists(fs, newPath)
             /\ CommitFs(c, "renamed", r.tab, args,
                         IF r.origin = "tab"
                         THEN RenameSucceeded(Fresh(c), r, newPath)
                         ELSE Fresh(c),
                         MoveFile(Answer(fs, k), r.path, r.newName))
        ELSE CommitFs(c, "renameFailed", r.tab, args,
                      IF r.origin = "tab" THEN RenameFailed(Fresh(c), r)
                      ELSE notify(Fresh(c), "Failed to rename"),
                      Answer(fs, k))

\* a delete that does not wait for the answer to window.confirm
DeleteRequestUnconfirmed(f, tab, confirmed) ==
  Ask(f, Request("delete", "tab", tab.id, CollabKey(tab), "", ""))

\* handleDeleteTab up to deleteFile(...)
DeleteRequest(f, tab, confirmed) ==
  IF confirmed
  THEN Ask(f, Request("delete", "tab", tab.id, CollabKey(tab), "", ""))
  ELSE f

handleDeleteTab(c, tabId, confirmed) ==
  LET i == FindIndex(store[c].tabs, tabId)
  IN /\ i # 0
     /\ CommitFs(c, "deleteTab", tabId, <<confirmed>>, Fresh(c),
                 DeleteRequest(fs, store[c].tabs[i], confirmed))

\* the service answers a delete: it succeeds only for a file that exists
DeleteResponse(c, k, ok) ==
  LET r == fs.pending[k]
      args == <<r.path, r.origin>>
  IN /\ k \in 1..Len(fs.pending)
     /\ r.op = "delete"
     /\ IF ok
        THEN /\ FileExists(fs, r.path)
             /\ CommitFs(c, "deleted", r.tab, args,
                         IF r.origin = "tab" THEN deleteTab(Fresh(c), r.tab)
                         ELSE Fresh(c),
                         RemoveFile(Answer(fs, k), r.path))
        ELSE CommitFs(c, "deleteFailed", r.tab, args,
                      notify(Fresh(c), "Failed to delete"), Answer(fs, k))

\* FileExplorer handleRename(item, newName) up to renameFile(...)
ExplorerRename(c, path, newName) ==
  /\ FileExists(fs, path)
  /\ CommitFs(c, "explorerRename", 0, <<path, newName>>, Fresh(c),
              IF trim(newName) # "" /\ newName # BaseName(path)
              THEN Ask(fs, Request("rename", "explorer", 0, path, "", newName))
              ELSE fs)

\* FileExplorer handleDeleteFile(filePath) up to deleteFile(...)
ExplorerDelete(c, path, confirmed) ==
  /\ FileExists(fs, path)
  /\ CommitFs(c, "explorerDelete", 0, <<path, confirmed>>, Fresh(c),
              IF confirmed
              THEN Ask(fs, Request("delete", "explorer", 0, path, "", ""))
              ELSE fs)

NewFileContent == "// New file\n"

\* where the explorer creates files: the footer and the header in the root of
\* the project, the inline input inside this folder
CreateOrigins == {"footer", "header", "inline"}

InlineFolder == "src"

\* handleCreateFileAPI, handleHeaderCreateFile and handleCreateFileInline up
\* to createFile(...), value typed
ExplorerCreate(c, origin, value) ==
  LET name == trim(value)
      err == IF origin = "header" THEN ValidateHeaderName(name)
             ELSE ValidateName(name)
      path == IF origin = "footer" THEN StripSlash(value)
              ELSE IF origin = "header" THEN StripSlash(name)
              ELSE StripSlash(InlineFolder \o "/" \o name)
      args == <<origin, value>>
  IN IF origin = "header" /\ name = ""
     THEN CommitFs(c, "create", 0, args, Fresh(c), fs)
     ELSE IF err # ""
     THEN CommitFs(c, "create", 0, args, notify(Fresh(c), err), fs)
     ELSE IF origin = "inline" /\ FileExists(fs, path)
     THEN CommitFs(c, "create", 0, args,
                   notify(Fresh(c), "File already exists"), fs)
     ELSE CommitFs(c, "create", 0, args, Fresh(c),
                   Ask(fs, Request("create", origin, 0, path, NewFileContent,
                                   "")))

\* the service answers a create: it succeeds only for a path that is free; the
\* inline input then opens the file
CreateResponse(c, k, ok) ==
  LET r == fs.pending[k]
      args == <<r.origin, r.path>>
  IN /\ k \in 1..Len(fs.pending)
     /\ r.op = "create"
     /\ IF ok
        THEN /\ ~FileExists(fs, r.path)
             /\ CommitFs(c, "created", 0, args,
                         IF r.origin = "inline"
                         THEN OpenFile(Fresh(c), [path |-> r.path,
                                                  content |-> r.content])
                         ELSE Fresh(c),
                         WriteFile(Answer(fs, k), r.path, r.content))
        ELSE CommitFs(c, "createFailed", 0, args,
                      notify(Fresh(c), "Failed to create"), Answer(fs, k))

\* what the user types into the inline rename input, into the rename input
\* of the explorer and into its create inputs
RenameInputs == {"", " ", "notes", "a.exe", " B.PY"}

ExplorerRenameInputs == {"", "c.py"}

CreateInputs == {"", "notes", "a.exe", "n.js"}

\* Escape in the inline input
CancelInlineRename(c) ==
  /\ panel[c].editingTabId # 0
  /\ CommitFs(c, "cancelRename", panel[c].editingTabId, <<>>,
              handleCancelInlineRename(Fresh(c)), fs)

ManageNext ==
  \/ ConnOpen("c1", 1)
  \/ CancelInlineRename("c1")
  \/ \E f \in fs.files : OpenFromExplorer("c1", f)
  \/ \E t \in 1..MaxTabs : handleStartInlineRename("c1", t)
  \/ \E v \in RenameInputs : handleConfirmInlineRename("c1", v)
  \/ \E k \in 1..MaxRequests, ok \in BOOLEAN : RenameResponse("c1", k, ok)
  \/ \E t \in 1..MaxTabs, ok \in BOOLEAN : handleDeleteTab("c1", t, ok)
  \/ \E k \in 1..MaxRequests, ok \in BOOLEAN : DeleteResponse("c1", k, ok)
  \/ \E f \in fs.files, v \in ExplorerRenameInputs :
       ExplorerRename("c1", f.path, v)
  \/ \E f \in fs.files, ok \in BOOLEAN : ExplorerDelete("c1", f.path, ok)

SpecManage == Init /\ [][ManageNext]_vars

CreateNext ==
  \/ ConnOpen("c1", 1)
  \/ \E o \in CreateOrigins, v \in CreateInputs : ExplorerCreate("c1", o, v)
  \/ \E k \in 1..MaxRequests, ok \in BOOLEAN : CreateResponse("c1", k, ok)
  \/ \E f \in fs.files : OpenFromExplorer("c1", f)

SpecCreate == Init /\ [][CreateNext]_vars

(***************************************************************************)
(* Language selector, tab selection and custom-named tabs: the first       *)
(* effect of EditorPanel runs again at every change of language, so these  *)
(* runs hold more sockets and tabs than the ones above.                    *)
(***************************************************************************)
WithinLang(W) ==
  /\ Len(W.st.tabs) <= MaxStoreTabs
  /\ Len(W.pn.conns) <= MaxLangConns
  /\ \A k \in 1..Len(W.pn.conns) : Len(W.pn.conns[k].onOpen) <= MaxLangPending

\* an event of client c, as Commit, within the bounds of these runs
CommitLang(c, kind, arg, W0) ==
  \E W \in {RunEffects(Snapshot(World(c)), W0)} :
     /\ WithinLang(W)
     /\ store' = [store EXCEPT ![c] = W.st]
     /\ panel' = [panel EXCEPT ![c] = W.pn]
     /\ relay' = RelayProcess(relay, c, W.out)
     /\ hist' = [NextHist(c, kind, NoMsg, W, relay) EXCEPT !.last.arg = arg]
     /\ now' = now
     /\ fs' = fs
     /\ UNCHANGED <<identity, runs>>

\* TopBar handleLanguageChange
handleLanguageChange(c, id) ==
  /\ id # store[c].languageId
  /\ CommitLang(c, "language", id, setLanguageId(World(c), id))

\* handleSelectTab(tabId): a click on a tab of the strip
handleSelectTab(c, tabId) ==
  /\ tabId \in TabIds(store[c].tabs)
  /\ CommitLang(c, "select", tabId, selectTab(World(c), tabId))

\* handleCloseTab(tabId)
handleCloseTab(c, tabId) ==
  /\ tabId \in TabIds(store[c].tabs)
  /\ Len(store[c].tabs) > 1
  /\ CommitLang(c, "close", tabId, closeTab(World(c), tabId))

\* Editor onChange("") : the user empties the buffer
ClearBuffer(c) ==
  /\ store[c].source # ""
  /\ LET W1 == setSource(World(c), "")
         W2 == updateTabContent(W1, W1.st.activeTabId, "")
         W3 == setUnsavedFile(W2, W2.st.activeTabId, TRUE)
     IN CommitLang(c, "edit", 0, W3)

\* handleFilePreview once readFile has answered
PreviewFile(c, f) ==
  /\ f \in fs.files
  /\ CommitLang(c, "preview", 0, OpenFile(World(c), f))

LangNext ==
  \/ \E id \in LangIds : handleLanguageChange("c1", id)
  \/ \E t \in 1..MaxTabIds + 1 : handleSelectTab("c1", t)
  \/ \E t \in 1..MaxTabIds + 1 : handleCloseTab("c1", t)
  \/ ClearBuffer("c1")
  \/ \E f \in fs.files : PreviewFile("c1", f)

SpecLang == Init /\ [][LangNext]_vars

(***************************************************************************)
(* Discarding tabs while auto-save runs.                                   *)
(***************************************************************************)
\* handleCloseAll
handleCloseAll(c) ==
  CommitFs(c, "closeAll", 0, <<>>, closeAll(Fresh(c)), fs)

CloseNext ==
  \/ ConnOpen("c1", 1)
  \/ \E v \in FileEdits : LocalEdit("c1", v)
  \/ handleCloseAll("c1")
  \/ \E t \in 1..MaxTabs : handleDeleteTab("c1", t, TRUE)
  \/ \E k \in 1..MaxRequests, ok \in BOOLEAN : DeleteResponse("c1", k, ok)
  \/ AutoSaveTick("c1")
  \/ \E k \in 1..MaxRequests, o \in SaveOutcomes : SaveResponse("c1", k, o)

SpecClose == Init /\ [][CloseNext]_vars

(***************************************************************************)
(* Opening files from the explorer with the read in flight: a click and a  *)
(* double click each start a handleFilePreview of their own.               *)
(***************************************************************************)
\* an event of client c, as CommitFs, with up to MaxReads requests in flight
CommitOpen(c, kind, args, W0, f) ==
  \E W \in {RunEffects(Snapshot(World(c)), W0)} :
     /\ Within(W)
     /\ Len(f.pending) <= MaxReads
     /\ store' = [store EXCEPT ![c] = W.st]
     /\ panel' = [panel EXCEPT ![c] = W.pn]
     /\ relay' = RelayProcess(relay, c, W.out)
     /\ hist' = [NextHist(c, kind, NoMsg, W, relay) EXCEPT !.last.args = args]
     /\ now' = now
     /\ fs' = f
     /\ UNCHANGED <<identity, runs>>

\* the gestures of FileItem that open a file
OpenGestures == {"click", "doubleClick"}

\* handleFilePreview up to readFile(filePath)
PreviewRequest(c, gesture, path) ==
  /\ FileExists(fs, path)
  /\ CommitOpen(c, "previewRequest", <<path, gesture>>, Fresh(c),
                Ask(fs, Request("read", gesture, 0, path, "", "")))

\* readFile answers: the rest of handleFilePreview runs to its end with the
\* tabs as they are now; a file that is gone rejects the read
PreviewResponse(c, k) ==
  LET r == fs.pending[k]
  IN /\ k \in 1..Len(fs.pending)
     /\ r.op = "read"
     /\ IF FileExists(fs, r.path)
        THEN CommitOpen(c, "previewed", <<r.path, r.origin>>,
                        OpenFile(Fresh(c), [path |-> r.path,
                                            content |-> FileContent(fs, r.path)]),
                        Answer(fs, k))
        ELSE CommitOpen(c, "previewFailed", <<r.path, r.origin>>,
                        notify(Fresh(c), "Error opening file"), Answer(fs, k))

OpenNext ==
  \/ ConnOpen("c1", 1)
  \/ \E g \in OpenGestures, f \in fs.files : PreviewRequest("c1", g, f.path)
  \/ \E k \in 1..MaxReads : PreviewResponse("c1", k)
  \/ \E t \in 1..MaxTabIds : handleCloseTab("c1", t)
  \/ \E f \in fs.files : ExplorerRename("c1", f.path, "c.py")
  \/ \E t \in 1..MaxTabIds : handleStartInlineRename("c1", t)
  \/ handleConfirmInlineRename("c1", "a.js")
  \/ \E k \in 1..MaxRequests, ok \in BOOLEAN : RenameResponse("c1", k, ok)

SpecOpen == Init /\ [][OpenNext]_vars

(***************************************************************************)
(* Client identity: CLIENT_ID is computed once at every page load.         *)
(***************************************************************************)
\* `${Date.now()}-${Math.random().toString(36).slice(2, 9)}`
GeneratedIds == {"g1", "g2"}

\* a page load that never reads the stored id
getOrCreateAlwaysNew(stored, id, writable) ==
  [CLIENT_ID |-> id,
   stored |-> IF writable THEN id ELSE stored]

\* localStorage.getItem("collab-client-id") || (generate id, setItem in
\* try/catch, return id): stored is the item (NoId: null or empty), id the
\* string generated, writable whether setItem succeeds
getOrCreate(stored, id, writable) ==
  IF stored # NoId
  THEN [CLIENT_ID |-> stored, stored |-> stored]
  ELSE [CLIENT_ID |-> id,
        stored |-> IF writable THEN id ELSE stored]

IdentityEvent(kind, args) ==
  [hist EXCEPT !.last = [kind |-> kind, client |-> "c1", msg |-> NoMsg,
                         out |-> <<>>, n |-> 0, arg |-> 0, active |-> 0,
                         args |-> args]]

\* the page of c1 is loaded again: the module is evaluated, the store is
\* created and EditorPanel mounts
LoadPage(id, writable) ==
  /\ identity' = getOrCreate(identity.stored, id, writable)
  /\ store' = [store EXCEPT !["c1"] = Mounted.st]
  /\ panel' = [panel EXCEPT !["c1"] = Mounted.pn]
  /\ hist' = IdentityEvent("load", <<identity.stored, id, writable>>)
  /\ UNCHANGED <<relay, now, fs, runs>>

\* the user clears the site data of the browser
ClearSiteData ==
  /\ identity.stored # NoId
  /\ identity' = [identity EXCEPT !.stored = NoId]
  /\ hist' = IdentityEvent("clear", <<>>)
  /\ UNCHANGED <<store, panel, relay, now, fs, runs>>

IdentityNext ==
  \/ \E id \in GeneratedIds, writable \in BOOLEAN : LoadPage(id, writable)
  \/ ClearSiteData
  \/ \E v \in EditContents : LocalEdit("c1", v)
  \/ AddTab("c1")

SpecIdentity == Init /\ [][IdentityNext]_vars

(***************************************************************************)
(* Run limit and daily run counter.                                        *)
(***************************************************************************)
\* the options of the "Run Code Limit" select
RunLimits == {50, 100, 200, Unlimited}

\* _ensureDaily: reads the store afresh and resets the counter on a new date
_ensureDaily(r) ==
  IF r.dailyRunDate # r.today
  THEN [r EXCEPT !.daily = [date |-> r.today, count |-> 0],
                 !.dailyRunDate = r.today,
                 !.dailyRunCount = 0]
  ELSE r

\* canRun: state is the store as getState() returned it BEFORE _ensureDaily,
\* and the limit and the count are read from it
canRun(r) ==
  LET state == r
  IN [runs |-> _ensureDaily(r),
      ret |-> IF state.runLimit = Unlimited THEN TRUE
              ELSE state.dailyRunCount < state.runLimit]

\* recordRun: state is the store as getState() returned it before the call of
\* _ensureDaily, and the next count is computed from it
recordRun(r) ==
  LET state == r
      r1 == IF state.dailyRunDate # r.today THEN _ensureDaily(r) ELSE r
      nextCount == state.dailyRunCount + 1
  IN [r1 EXCEPT !.daily = [date |-> r.today, count |-> nextCount],
                !.dailyRunDate = r.today,
                !.dailyRunCount = nextCount]

RunEvent(kind, args) ==
  [hist EXCEPT !.last = [kind |-> kind, client |-> "c1", msg |-> NoMsg,
                         out |-> <<>>, n |-> 0, arg |-> 0, active |-> 0,
                         args |-> args]]

\* TopBar onRun up to executeCode(payload): refused with an alert when canRun
\* returns false
onRun ==
  /\ ~runs.isRunning
  /\ LET can == canRun(runs)
     IN /\ runs' = [can.runs EXCEPT !.isRunning = can.ret]
        /\ hist' = RunEvent("onRun", <<can.ret>>)
  /\ UNCHANGED <<store, panel, relay, now, fs, identity>>

\* executeCode answers: a result is recorded with recordRun, a failure is not
RunFinished(ok) ==
  /\ runs.isRunning
  /\ runs.dailyRunCount < MaxRuns
  /\ runs' = [(IF ok THEN recordRun(runs) ELSE runs) EXCEPT
                !.isRunning = FALSE]
  /\ hist' = RunEvent("ran", <<ok>>)
  /\ UNCHANGED <<store, panel, relay, now, fs, identity>>

\* setRunLimit(limit) from the settings panel
SetRunLimit(limit) ==
  /\ limit # runs.runLimit
  /\ runs' = [runs EXCEPT !.runLimit = limit]
  /\ hist' = RunEvent("setRunLimit", <<limit>>)
  /\ UNCHANGED <<store, panel, relay, now, fs, identity>>

\* midnight (UTC) passes
NextDay ==
  /\ runs.today < MaxDays
  /\ runs' = [runs EXCEPT !.today = @ + 1]
  /\ hist' = RunEvent("midnight", <<>>)
  /\ UNCHANGED <<store, panel, relay, now, fs, identity>>

RunsNext ==
  \/ onRun
  \/ \E ok \in BOOLEAN : RunFinished(ok)
  \/ \E limit \in RunLimits : SetRunLimit(limit)
  \/ NextDay

SpecRuns == Init /\ [][RunsNext]_vars

(***************************************************************************)
(* One browser tab left alone by its user: the socket that is connecting   *)
(* opens and an armed debounce timer fires; the user's own events are      *)
(* under no obligation to happen.                                          *)
(***************************************************************************)
LiveNext ==
  \/ ConnOpen("c1", 1)
  \/ \E v \in EditContents : LocalEdit("c1", v)
  \/ \E t \in 1..MaxTabs : SelectTab("c1", t)
  \/ AddTab("c1")
  \/ TimerFire("c1")

\* the browser completes the handshake; setTimeout(sendNow, 800) expires
Fairness ==
  /\ WF_vars(ConnOpen("c1", 1))
  /\ WF_vars(TimerFire("c1"))

SpecLive == Init /\ [][LiveNext]_vars /\ Fairness

(***************************************************************************)
(* Properties.                                                             *)
(***************************************************************************)
Marker(c) == panel[c].lastAppliedRemote

\* the step just taken handled an inbound frame
IsMessage(h) == h.last.kind = "message" /\ h.last.client \in Clients

\* C1: last-writer-wins across clients. When two clients with the same file
\* active have each published one edit (timestamps t1 < t2), each has received
\* the other's edit, nothing is in flight and neither has typed since, both
\* show the content of the edit stamped t2.
C1_LastWriterWins ==
  \A a \in Clients : \A b \in Clients \ {a} :
    ( /\ hist.published[a] = 1 /\ hist.published[b] = 1
      /\ hist.rcvd[a] = 1 /\ hist.rcvd[b] = 1
      /\ hist.burst[a] = 0 /\ hist.burst[b] = 0
      /\ relay.inflight = {}
      /\ hist.sent[a].filePath = hist.sent[b].filePath
      /\ ActivePath(store[a]) = hist.sent[a].filePath
      /\ ActivePath(store[b]) = hist.sent[b].filePath
      /\ hist.sent[a].timestamp < hist.sent[b].timestamp )
    => /\ store[a].source = hist.sent[b].content
       /\ store[b].source = hist.sent[b].content
       /\ ActiveContent(store[a]) = hist.sent[b].content
       /\ ActiveContent(store[b]) = hist.sent[b].content

\* what C2_StalenessRejection requires of one step
C2_Step ==
  IsMessage(hist') =>
    LET c == hist'.last.client
        m == hist'.last.msg
    IN ( /\ m.clientId # c
         /\ m.filePath = ActivePath(store[c])
         /\ Marker(c).filePath = m.filePath
         /\ m.timestamp <= Marker(c).timestamp )
       => /\ store'[c].tabs = store[c].tabs
          /\ store'[c].source = store[c].source
          /\ panel'[c].lastAppliedRemote = Marker(c)

\* C2: staleness rejection. Once an edit of a peer for the active file has been
\* applied, a later-arriving edit of a peer for that file whose timestamp is
\* smaller than or equal to the marker's changes neither the tabs, nor the
\* editor buffer, nor the marker.
C2_StalenessRejection == [][C2_Step]_vars

C2_Witness ==
  /\ IsMessage(hist)
  /\ LET c == hist.last.client
         m == hist.last.msg
     IN /\ m.clientId # c
        /\ m.filePath = ActivePath(store[c])
        /\ Marker(c).filePath = m.filePath
        /\ m.timestamp < Marker(c).timestamp
        /\ store[c].source = ActiveContent(store[c])

\* what C3_SelfEchoRejection requires of one step
C3_Step ==
  IsMessage(hist') =>
    LET c == hist'.last.client
        m == hist'.last.msg
    IN m.clientId = c
       => /\ store'[c].tabs = store[c].tabs
          /\ store'[c].source = store[c].source
          /\ panel'[c].lastAppliedRemote = Marker(c)

\* C3: self-echo rejection. An inbound edit carrying this client's own id
\* changes no tab, not the editor buffer and not the marker, whatever its
\* timestamp and filePath.
C3_SelfEchoRejection == [][C3_Step]_vars

C3_Witness ==
  /\ IsMessage(hist)
  /\ LET c == hist.last.client
         m == hist.last.msg
     IN /\ m.clientId = c
        /\ m.filePath = ActivePath(store[c])
        /\ m.timestamp > Marker(c).timestamp
        /\ m.content # store[c].source

\* what C4_ActiveFileGating requires of one step
C4_Step ==
  IsMessage(hist') =>
    LET c == hist'.last.client
        m == hist'.last.msg
    IN m.filePath # ActivePath(store[c])
       => /\ store'[c].tabs = store[c].tabs
          /\ store'[c].source = store[c].source
          /\ panel'[c].lastAppliedRemote = Marker(c)

\* C4: active-file gating. An inbound edit whose filePath differs from the
\* active tab's collaboration key changes no tab, not the editor buffer and
\* not the marker.
C4_ActiveFileGating == [][C4_Step]_vars

C4_Witness ==
  /\ IsMessage(hist)
  /\ LET c == hist.last.client
         m == hist.last.msg
         st == store[c]
     IN /\ m.clientId # c
        /\ m.filePath # ActivePath(st)
        /\ m.timestamp > Marker(c).timestamp
        /\ \E i \in 1..Len(st.tabs) :
             /\ st.tabs[i].id # st.activeTabId
             /\ CollabKey(st.tabs[i]) = m.filePath
             /\ st.tabs[i].content # m.content

\* what C5_AcceptanceEffect requires of one step
C5_Step ==
  IsMessage(hist') =>
    LET c == hist'.last.client
        m == hist'.last.msg
        st == store[c]
        i == FindIndex(st.tabs, st.activeTabId)
    IN ( /\ m \in InboundMsgs
         /\ m.clientId # c
         /\ m.filePath = ActivePath(st)
         /\ m.timestamp > Marker(c).timestamp )
       => /\ store'[c].source = m.content
          /\ store'[c].activeTabId = st.activeTabId
          /\ store'[c].tabs = [st.tabs EXCEPT ![i].content = m.content]
          /\ panel'[c].lastAppliedRemote =
               [filePath |-> m.filePath, timestamp |-> m.timestamp]

\* C5: acceptance effect. An inbound edit (all four fields present) of another
\* client for the active file with a timestamp greater than the marker's is
\* applied: the active tab's content and the editor buffer become the message
\* content, the other tabs keep theirs, and the marker becomes {filePath,
\* timestamp} of the message.
C5_AcceptanceEffect == [][C5_Step]_vars

\* an accepted edit has replaced local edits that were never published
C5_Witness ==
  /\ IsMessage(hist)
  /\ LET c == hist.last.client
         m == hist.last.msg
     IN /\ m.clientId # c
        /\ Marker(c) = [filePath |-> m.filePath, timestamp |-> m.timestamp]
        /\ ActivePath(store[c]) = m.filePath
        /\ store[c].source = m.content
        /\ ActiveContent(store[c]) = m.content
        /\ store[c].activeTabId \in store[c].unsavedFiles
        /\ hist.last.n >= 1

\* C6: no echo loop. A client publishes an edit only after a local keystroke:
\* every publish has at least one local edit since the client's previous
\* publish, so applying a remote edit never makes the receiver send one.
C6_NoEchoPublish ==
  hist.last.kind = "timer" => hist.last.n >= 1

\* C7: at most one subscription. The files a client is subscribed to on the
\* relay are never more than one.
C7_AtMostOneSubscription ==
  \A c \in Clients : Cardinality(Subscribed(c)) <= 1

\* frame j of out drops the subscription of socket k to file a
DropsAt(out, j, k, a) ==
  /\ out[j].conn = k
  /\ out[j].msg \in {UnsubscribeAllMsg, UnsubscribeMsg(a)}

\* what C8_SwitchOrdering requires of one step
C8_Step ==
  hist'.last.client \in Clients =>
    LET c == hist'.last.client
        out == hist'.last.out
        m == hist'.last.msg
        st == store[c]
        a == ActivePath(st)
        b == ActivePath(store'[c])
        k == wsRef(panel[c])
    IN /\ ( /\ a # b /\ a # NoPath /\ b # NoPath
            /\ IsOpen(panel[c], k)
            /\ wsRef(panel'[c]) = k )
          => /\ \E j \in 1..Len(out) :
                  out[j] = [conn |-> k, msg |-> SubscribeMsg(b)]
             /\ \A j \in 1..Len(out) :
                  out[j].msg.type = "subscribe"
                    => \E i \in 1..(j - 1) : DropsAt(out, i, k, a)
             /\ <<c, k, b>> \in relay'.subs
             /\ <<c, k, a>> \notin relay'.subs
       /\ ( /\ hist'.last.kind = "message"
            /\ m.filePath # a
            /\ \E i \in 1..Len(st.tabs) :
                 /\ st.tabs[i].id # st.activeTabId
                 /\ CollabKey(st.tabs[i]) = m.filePath )
          => /\ store'[c].tabs = st.tabs
             /\ store'[c].source = st.source

C9_ConnectOnce ==
  \A c \in Clients : Len(panel[c].conns) <= 1

\* what C10_DebounceCoalescing requires of one step
C10_Step ==
  hist'.last.client \in Clients =>
    LET c == hist'.last.client
        out == hist'.last.out
        k == wsRef(panel[c])
        t == panel[c].debouncedSend
    IN /\ (hist'.last.kind = "edit" /\ IsOpen(panel[c], k))
          => /\ panel'[c].debouncedSend =
                  [path |-> ActivePath(store'[c]),
                   content |-> store'[c].source, conn |-> k]
             /\ \A j \in 1..Len(out) : out[j].msg.type # "edit"
       /\ (hist'.last.kind = "timer" /\ hist.burst[c] >= 1)
          => /\ out = <<[conn |-> t.conn,
                         msg |-> EditMsg(t.path, t.content, c, now)]>>
             /\ t.content = store[c].source
             /\ t.path = ActivePath(store[c])
             /\ panel'[c].debouncedSend = NoTimer

\* C10: debounce coalescing. With the socket open every local edit restarts
\* the one pending publish with the content just typed and sends nothing; when
\* the quiet window ends exactly one edit frame is sent, carrying the content
\* and file of the pending publish, and no publish stays pending.
C10_DebounceCoalescing == [][C10_Step]_vars

\* a burst of two or more edits has been published as one frame
C10_Witness ==
  /\ hist.last.kind = "timer"
  /\ hist.last.n = 2
  /\ LET c == hist.last.client
     IN /\ Len(hist.last.out) = 1
        /\ hist.last.msg.content = store[c].source
        /\ hist.last.msg.filePath = ActivePath(store[c])
        /\ panel[c].debouncedSend = NoTimer

\* what C11_EditPayload requires of one step
C11_Step ==
  hist'.last.client \in Clients =>
    LET c == hist'.last.client
        out == hist'.last.out
        t == panel'[c].debouncedSend
    IN /\ t # NoTimer
          => /\ t.path = ActivePath(store'[c])
             /\ t.content = ActiveContent(store'[c])
       /\ \A j \in 1..Len(out) :
            out[j].msg.type = "edit"
              => /\ hist'.last.kind = "timer"
                 /\ out[j].msg.clientId = c
                 /\ out[j].msg.filePath = ActivePath(store[c])
                 /\ out[j].msg.content = ActiveContent(store[c])
                 /\ out[j].msg.timestamp = now

\* C11: edit payload. A publish is armed with the collaboration key and the
\* content of the tab active at that moment, and every edit frame a client
\* sends is sent by the debounce timer and carries the client's own id, the
\* key of the active tab, that tab's content and the current time; so the
\* content of a tab that is not active is never sent, and no content is sent
\* under the key of another file.
C11_EditPayload == [][C11_Step]_vars

\* an edit frame was sent for the active tab while another tab with another
\* key holds different content
C11_Witness ==
  /\ hist.last.kind = "timer"
  /\ LET c == hist.last.client
         st == store[c]
         out == hist.last.out
     IN /\ Len(out) = 1
        /\ out[1].msg.type = "edit"
        /\ out[1].msg.content # ""
        /\ out[1].msg.filePath = ActivePath(st)
        /\ \E i \in 1..Len(st.tabs) :
             /\ st.tabs[i].id # st.activeTabId
             /\ CollabKey(st.tabs[i]) # out[1].msg.filePath
             /\ st.tabs[i].content # out[1].msg.content

\* what C12_ScheduledPublishSurvivesSwitch requires of one step
C12_Step ==
  hist'.last.kind = "select" =>
    LET c == hist'.last.client
        out == hist'.last.out
        t == panel[c].debouncedSend
    IN ( /\ t # NoTimer
         /\ t.path = ActivePath(store[c])
         /\ ActivePath(store'[c]) # t.path )
       => \/ panel'[c].debouncedSend.path = t.path
          \/ \E j \in 1..Len(out) :
               /\ out[j].msg.type = "edit"
               /\ out[j].msg.filePath = t.path

\* C12: a scheduled publish survives a tab switch. When a publish for file A
\* is pending and the active tab is switched to another file,
\* the publish for A is still pending after the switch (or has been sent by
\* it), so that it fires with filePath A.
C12_ScheduledPublishSurvivesSwitch == [][C12_Step]_vars

\* what C13_MalformedDropped requires of one step
C13_Step ==
  IsMessage(hist') =>
    LET c == hist'.last.client
        m == hist'.last.msg
    IN m \in MalformedMsgs
       => /\ store'[c].tabs = store[c].tabs
          /\ store'[c].source = store[c].source
          /\ panel'[c].lastAppliedRemote = Marker(c)

\* C13: malformed inbound messages are dropped. A frame that is not JSON, or
\* an edit message lacking filePath, content, clientId or timestamp, changes no
\* tab, not the editor buffer and not the marker.
C13_MalformedDropped == [][C13_Step]_vars

\* C14: the Tab Store always holds at least one tab, whatever sequence of
\* addTab, createTab, selectTab, duplicateTab, closeTab, closeOthers, closeAll
\* and deleteTab calls it has served, with ids of existing tabs or of none.
C14_AtLeastOneTab ==
  \A c \in Clients : Len(store[c].tabs) >= 1

\* closeOthers was called with an id that matches no tab, after tabs had been
\* added
C14_Witness ==
  /\ hist.last.kind = "closeOthers"
  /\ LET c == hist.last.client
     IN /\ hist.last.arg \notin TabIds(store[c].tabs)
        /\ Cardinality(hist.used[c]) >= 2
        /\ Len(store[c].tabs) = 1

\* C15: activeTabId refers to an existing tab in every reachable state:
\* exactly one tab of the store has the id activeTabId.
C15_ActiveTabExists ==
  \A c \in Clients :
    Cardinality({i \in 1..Len(store[c].tabs) :
                   store[c].tabs[i].id = store[c].activeTabId}) = 1

\* goToMatch was called with an id that matches no tab while a later tab was
\* open: the first tab is active
C15_Witness ==
  /\ hist.last.kind = "goToMatch"
  /\ LET st == store[hist.last.client]
     IN /\ hist.last.arg \notin TabIds(st.tabs)
        /\ Len(st.tabs) >= 2
        /\ st.activeTabId = st.tabs[1].id
        /\ st.source = st.tabs[1].content

\* what C16_IdsNeverReused requires of one step
C16_Step ==
  hist'.last.client \in Clients =>
    LET c == hist'.last.client
        before == TabIds(store[c].tabs)
        after == store'[c].tabs
    IN /\ (TabIds(after) \ before) \cap hist.used[c] = {}
       /\ \A i \in 1..Len(after) : \A j \in 1..Len(after) :
            after[i].id = after[j].id => i = j

\* C16: tab ids are never reused. A tab that appears in the store never has an
\* id that a tab closed or deleted earlier in the session had, and no two open
\* tabs share an id.
C16_IdsNeverReused == [][C16_Step]_vars

\* what C17_CloseTabKeepsLast requires of one step
C17_Step ==
  hist'.last.kind = "closeTab" =>
    LET c == hist'.last.client
        st == store[c]
    IN (Len(st.tabs) = 1 \/ hist'.last.arg \notin TabIds(st.tabs))
       => store'[c] = st

\* C17: closeTab refuses to remove the last tab. With exactly one tab in the
\* store closeTab(id) leaves the whole store unchanged for any id, and so does
\* closeTab with an id that matches no tab.
C17_CloseTabKeepsLast == [][C17_Step]_vars

\* closeTab was called on the only tab, which has content
C17_Witness ==
  /\ hist.last.kind = "closeTab"
  /\ LET st == store[hist.last.client]
     IN /\ Len(st.tabs) = 1
        /\ st.tabs[1].id = hist.last.arg
        /\ st.tabs[1].content # ""
        /\ st.source # ""

\* what C18_DeleteLastTab requires of one step
C18_Step ==
  hist'.last.kind = "deleteTab" =>
    LET c == hist'.last.client
        st == store[c]
        after == store'[c]
    IN (Len(st.tabs) = 1 /\ st.tabs[1].id = hist'.last.arg)
       => /\ Len(after.tabs) = 1
          /\ after.tabs[1].content = ""
          /\ after.tabs[1].name =
               fileNaming(getMonacoLanguage(after.languageId))
          /\ ~after.tabs[1].isCustomName
          /\ after.activeTabId = after.tabs[1].id
          /\ after.source = ""
          /\ after.languageId = st.languageId

\* C18: deleteTab on the only remaining tab replaces it with one fresh default
\* tab: the store then holds exactly one tab, with empty content, the default
\* file name of the current language and isCustomName false; that tab is
\* active and the editor buffer is empty.
C18_DeleteLastTab == [][C18_Step]_vars

\* the only tab, a later one, was deleted while the language was Python
C18_Witness ==
  /\ hist.last.kind = "deleteTab"
  /\ LET st == store[hist.last.client]
     IN /\ hist.last.arg # 1
        /\ hist.last.arg = hist.last.active
        /\ Len(st.tabs) = 1
        /\ st.tabs[1].id = 1
        /\ st.tabs[1].name = "main.py"
        /\ st.source = ""

\* what C19_FallbackSelection requires of one step
C19_Step ==
  hist'.last.kind \in {"closeTab", "deleteTab"} =>
    LET c == hist'.last.client
        st == store[c]
        after == store'[c]
        id == hist'.last.arg
        i == FindIndex(st.tabs, id)
        chosen == IF i > 1 THEN st.tabs[i - 1] ELSE after.tabs[1]
    IN (Len(st.tabs) >= 2 /\ i # 0)
       => /\ Len(after.tabs) = Len(st.tabs) - 1
          /\ id \notin TabIds(after.tabs)
          /\ IF id = st.activeTabId
             THEN /\ after.activeTabId = chosen.id
                  /\ after.source = chosen.content
                  /\ chosen.id \in TabIds(after.tabs)
             ELSE after.activeTabId = st.activeTabId

\* C19: fallback selection. When closeTab or deleteTab removes the active tab
\* at index i of a store with at least two tabs, the new active tab is the tab
\* that was at index i-1 when i > 0 and otherwise the first of the remaining
\* tabs, and the editor buffer becomes that tab's content; removing a tab that
\* is not active leaves activeTabId unchanged.
C19_FallbackSelection == [][C19_Step]_vars

\* the active tab was closed from between two others: the one before it is
\* active now
C19_Witness ==
  /\ hist.last.kind = "closeTab"
  /\ LET st == store[hist.last.client]
     IN /\ hist.last.arg = hist.last.active
        /\ Len(st.tabs) = 2
        /\ st.tabs[1].id < hist.last.arg
        /\ hist.last.arg < st.tabs[2].id
        /\ st.activeTabId = st.tabs[1].id
        /\ st.source = st.tabs[1].content
        /\ st.tabs[1].content # st.tabs[2].content

\* name is base, or base followed by " Copy" or by " Copy N"
IsCopyOf(name, base) ==
  \/ name = base
  \/ \E n \in 1..(MaxStoreTabs + MaxTabIds) : name = CopyName(base, n)

\* the shortest beginning of name that name is a copy of ("untitled" for the
\* empty name)
Stem(name) ==
  LET n == IF name = "" THEN "untitled" ELSE name
      k == CHOOSE i \in 0..Len(n) :
             /\ IsCopyOf(n, SubSeq(n, 1, i))
             /\ \A j \in 0..(i - 1) : ~IsCopyOf(n, SubSeq(n, 1, j))
  IN SubSeq(n, 1, k)

\* duplicateTab(id) has added one tab, named after base: base Copy if no tab
\* had that name, else base Copy N for the least N >= 2 no tab had
DuplicatedFrom(st, after, base) ==
  LET taken == TabNames(st.tabs)
      added == after.tabs[Len(after.tabs)]
  IN /\ Len(after.tabs) = Len(st.tabs) + 1
     /\ SubSeq(after.tabs, 1, Len(st.tabs)) = st.tabs
     /\ added.name \notin taken
     /\ \E n \in 1..(Len(st.tabs) + 1) :
          /\ added.name = CopyName(base, n)
          /\ \A m \in 1..(n - 1) : CopyName(base, m) \in taken

\* what C20_DuplicateNaming requires of one step
C20_Step ==
  hist'.last.kind = "duplicateTab" =>
    LET st == store[hist'.last.client]
        i == FindIndex(st.tabs, hist'.last.arg)
    IN i # 0
       => DuplicatedFrom(st, store'[hist'.last.client], st.tabs[i].name)

\* C20 as stated: duplicateTab(id) on an existing tab adds exactly one tab
\* whose name no tab had before; the name is '<name> Copy' when that is free
\* and otherwise '<name> Copy N' for the smallest N >= 2 that is free, <name>
\* being the name of the duplicated tab.
C20_DuplicateNaming == [][C20_Step]_vars

\* what C20_DuplicateNamingOfStem requires of one step
C20_StemStep ==
  hist'.last.kind = "duplicateTab" =>
    LET st == store[hist'.last.client]
        i == FindIndex(st.tabs, hist'.last.arg)
    IN i # 0
       => DuplicatedFrom(st, store'[hist'.last.client],
                         Stem(st.tabs[i].name))

\* C20 amended: duplicateTab(id) on an existing tab adds exactly one tab whose
\* name no tab had before; the name is '<base> Copy' when that is free and
\* otherwise '<base> Copy N' for the smallest N >= 2 that is free, <base>
\* being the name of the duplicated tab without a ' Copy' or ' Copy N' ending.
C20_DuplicateNamingOfStem == [][C20_StemStep]_vars

\* a copy was duplicated while the tab it was copied from is open: the new tab
\* is the second copy of that tab
C20_Witness ==
  /\ hist.last.kind = "duplicateTab"
  /\ LET st == store[hist.last.client]
         i == FindIndex(st.tabs, hist.last.arg)
     IN /\ i # 0
        /\ Len(st.tabs) = 3
        /\ st.tabs[i].name = CopyName(st.tabs[1].name, 1)
        /\ st.tabs[3].name = CopyName(st.tabs[1].name, 2)
        /\ st.activeTabId = st.tabs[3].id

\* what C21_RenameTabMetadataOnly requires of one step
C21_Step ==
  hist'.last.kind = "renameTab" =>
    LET c == hist'.last.client
        st == store[c]
        after == store'[c]
        i == FindIndex(st.tabs, hist'.last.arg)
        newName == hist'.last.args[1]
        newPath == hist'.last.args[2]
    IN /\ Len(after.tabs) = Len(st.tabs)
       /\ \A j \in 1..Len(st.tabs) :
            after.tabs[j] =
              IF j = i
              THEN [st.tabs[j] EXCEPT
                      !.name = newName, !.isCustomName = TRUE,
                      !.path = IF newPath = Undefined THEN st.tabs[j].path
                               ELSE newPath]
              ELSE st.tabs[j]
       /\ [after EXCEPT !.tabs = st.tabs] = st
       /\ fs' = fs

\* C21: renameTab changes display metadata only. renameTab(id, newName,
\* newPath) changes just the name, the path and the custom-name flag of the tab
\* with that id: that tab's id and content, every other tab, the tab order,
\* activeTabId and the editor buffer are unchanged, the filesystem service gets
\* no request, and without newPath the tab keeps its path.
C21_RenameTabMetadataOnly == [][C21_Step]_vars

\* a tab that has a path and content was renamed without newPath while another
\* tab is active
C21_Witness ==
  /\ hist.last.kind = "renameTab"
  /\ hist.last.args[2] = Undefined
  /\ LET st == store[hist.last.client]
         i == FindIndex(st.tabs, hist.last.arg)
     IN /\ i # 0
        /\ st.tabs[i].path # NoPath
        /\ st.tabs[i].name = hist.last.args[1]
        /\ st.tabs[i].content # ""
        /\ st.activeTabId # hist.last.arg

\* C22: in every quiescent state the editor buffer (source) equals the
\* content of the active tab, whatever sequence of select, add, local edit,
\* save and open-from-explorer led there.
C22_NoDrift ==
  \A c \in Clients : store[c].source = ActiveContent(store[c])

\* C23: a save that succeeds leaves the tab flagged unsaved when the tab's
\* content is no longer the content that was persisted (the user edited while
\* the save was in flight).
C23_Step ==
  \A c \in Clients :
    (hist'.last.kind = "saved" /\ hist'.last.client = c) =>
      LET t == hist'.last.arg
          i == FindIndex(store'[c].tabs, t)
      IN (i # 0 /\ store'[c].tabs[i].content # hist'.last.args[2]) =>
           t \in store'[c].unsavedFiles

C23_UnsavedTracksPersistence == [][C23_Step]_vars

\* C24: a tick of the auto-save interval sends a save request exactly when
\* the active tab is flagged unsaved, carrying the tab's key and its current
\* content; the success of that request clears the flag and sets the status
\* to success; its failure keeps the flag, sets the status to error and
\* changes no content.
C24_Step ==
  \A c \in Clients :
    LET st == store[c]
        i == FindIndex(st.tabs, st.activeTabId)
        auto == Len(hist'.last.args) = 3 /\ hist'.last.args[3] = "auto"
    IN /\ (hist'.last.kind = "autosave" /\ hist'.last.client = c) =>
            IF st.activeTabId \in st.unsavedFiles
            THEN fs'.pending =
                   Append(fs.pending,
                          [op |-> "save", origin |-> "auto",
                           tab |-> st.activeTabId,
                           path |-> CollabKey(st.tabs[i]),
                           content |-> st.tabs[i].content, newName |-> ""])
            ELSE fs' = fs
       /\ (hist'.last.kind = "saved" /\ hist'.last.client = c /\ auto) =>
            /\ hist'.last.arg \notin store'[c].unsavedFiles
            /\ store'[c].saveStatus = "success"
       /\ (hist'.last.kind \in {"saveFailed", "saveRefused"}
             /\ hist'.last.client = c /\ auto) =>
            /\ store'[c].unsavedFiles = st.unsavedFiles
            /\ store'[c].saveStatus = "error"
            /\ store'[c].tabs = st.tabs
            /\ store'[c].source = st.source
            /\ fs'.files = fs.files

C24_AutosaveTick == [][C24_Step]_vars

\* C30: an edit of a peer for the active file is applied unless an edit for
\* that same file with an equal or greater timestamp was applied earlier; the
\* timestamp of an edit applied to another file does not count.
C30_Step ==
  IsMessage(hist') =>
    LET c == hist'.last.client
        m == hist'.last.msg
    IN ( /\ m \in InboundMsgs
         /\ m.clientId # c
         /\ m.filePath = ActivePath(store[c])
         /\ ~\E a \in hist.applied[c] :
               a.filePath = m.filePath /\ a.timestamp >= m.timestamp )
       => /\ store'[c].source = m.content
          /\ ActiveContent(store'[c]) = m.content
          /\ panel'[c].lastAppliedRemote =
               [filePath |-> m.filePath, timestamp |-> m.timestamp]

C30_MarkerGuardsItsFile == [][C30_Step]_vars

\* the display name and the key of every tab
NamesAndPaths(st) ==
  [i \in 1..Len(st.tabs) |-> <<st.tabs[i].id, st.tabs[i].name, st.tabs[i].path>>]

\* names that are empty, have no extension, or have one that is not allowed
InvalidNames == {"", " ", "notes", "a.exe"}

\* C25: confirming an inline rename with a name that is empty, has no
\* extension or has an extension outside the allowed set sends no rename
\* request, leaves every tab's name and path as they were, and puts the
\* validation error in front of the user.
C25_Step ==
  \A c \in Clients :
    (/\ hist'.last.kind = "confirmRename"
     /\ hist'.last.client = c
     /\ hist'.last.args[1] \in InvalidNames) =>
      /\ fs' = fs
      /\ NamesAndPaths(store'[c]) = NamesAndPaths(store[c])
      /\ panel'[c].editingError # ""
      /\ panel'[c].editingError \in Visible(store'[c], panel'[c])

C25_RenameValidationFailsFast == [][C25_Step]_vars

\* C26: an inline rename with a valid name is all-or-nothing: when the
\* request fails no tab's name or path changes, no file moves and the error
\* is in front of the user; when it succeeds the file has moved and the
\* renamed tab has the new name and the path the service answered.
C26_Step ==
  \A c \in Clients :
    LET e == hist'.last
        i == FindIndex(store'[c].tabs, e.arg)
        fromTab == e.client = c /\ Len(e.args) = 3 /\ e.args[3] = "tab"
    IN /\ (e.kind = "renameFailed" /\ fromTab) =>
            /\ NamesAndPaths(store'[c]) = NamesAndPaths(store[c])
            /\ fs'.files = fs.files
            /\ panel'[c].editingError # ""
            /\ panel'[c].editingError \in Visible(store'[c], panel'[c])
       /\ (e.kind = "renamed" /\ fromTab) =>
            /\ ~FileExists(fs', e.args[1])
            /\ FileExists(fs', RenamedPath(e.args[1], e.args[2]))
            /\ i # 0
            /\ store'[c].tabs[i].name = e.args[2]
            /\ store'[c].tabs[i].path = RenamedPath(e.args[1], e.args[2])
            /\ \A j \in 1..Len(store[c].tabs) :
                 store[c].tabs[j].id # e.arg =>
                   store'[c].tabs[j] = store[c].tabs[j]

C26_RenameAllOrNothing == [][C26_Step]_vars

\* C27: the tab menu sends a delete request only when the user has
\* confirmed; declining sends nothing and changes no tab; a failed delete
\* leaves every tab and the editor buffer as they were; a tab leaves the Tab
\* Store only in the step in which its delete succeeds.
C27_Step ==
  \A c \in Clients :
    LET e == hist'.last
        n == Len(fs'.pending)
        fromTab == e.client = c /\ Len(e.args) = 2 /\ e.args[2] = "tab"
    IN /\ (/\ n > Len(fs.pending)
            /\ fs'.pending[n].op = "delete"
            /\ fs'.pending[n].origin = "tab") =>
            (e.kind = "deleteTab" /\ e.args = <<TRUE>>)
       /\ (e.kind = "deleteTab" /\ e.client = c /\ e.args = <<FALSE>>) =>
            (fs' = fs /\ store'[c] = store[c])
       /\ (e.kind = "deleteTab" /\ e.client = c) =>
            store'[c].tabs = store[c].tabs
       /\ (e.kind = "deleteFailed" /\ fromTab) =>
            (store'[c] = store[c] /\ fs'.files = fs.files)
       /\ (e.client = c /\ ~(TabIds(store[c].tabs) \subseteq
                                TabIds(store'[c].tabs))) =>
            (e.kind = "deleted" /\ fromTab /\ ~FileExists(fs', e.args[1]))

C27_DeleteFromTabMenu == [][C27_Step]_vars

C27_Witness ==
  /\ hist.last.kind = "deleteFailed"
  /\ hist.last.args = <<"src/a.js", "tab">>
  /\ \E i \in 1..Len(store["c1"].tabs) :
       /\ store["c1"].tabs[i].id = hist.last.arg
       /\ store["c1"].tabs[i].path = "src/a.js"

\* C28: after a rename or a delete of a file has succeeded, from the tab menu
\* or from the explorer, no open tab has the path the file had before.
C28_NoTabKeepsOldPath ==
  \A c \in Clients : \A i \in 1..Len(store[c].tabs) :
    CollabKey(store[c].tabs[i]) \notin fs.removed

\* C29: whichever create input of the explorer is used, a name with no
\* extension or with an extension outside the allowed set sends no create
\* request and leaves the files and the Tab Store as they were.
C29_Step ==
  \A c \in Clients :
    (/\ hist'.last.kind = "create"
     /\ hist'.last.client = c
     /\ hist'.last.args[2] \in {"notes", "a.exe"}) =>
      (fs' = fs /\ store'[c] = store[c])

C29_CreateValidatesExtension == [][C29_Step]_vars

\* C33: on the first canRun or recordRun call of a new date the count of the
\* previous date is discarded: canRun returns true when the limit is positive
\* or unlimited and leaves the count at 0, recordRun leaves it at 1; on the
\* same date canRun returns true exactly when the count is below the limit or
\* the limit is unlimited, and recordRun adds one.
C33_Step ==
  LET e == hist'.last
      newDate == runs.dailyRunDate # runs.today
      unlimited == runs.runLimit = Unlimited
  IN /\ e.kind = "onRun" =>
          IF newDate
          THEN /\ runs'.dailyRunCount = 0
               /\ (unlimited \/ runs.runLimit > 0) => e.args[1]
          ELSE e.args[1] = (unlimited \/ runs.dailyRunCount < runs.runLimit)
     /\ (e.kind = "ran" /\ e.args[1]) =>
          /\ runs'.dailyRunDate = runs.today
          /\ runs'.dailyRunCount = IF newDate THEN 1
                                   ELSE runs.dailyRunCount + 1

C33_DailyCounter == [][C33_Step]_vars

\* the positions of the tabs of st that handleFilePreview takes for path
OpenAt(st, path) ==
  {i \in 1..Len(st.tabs) :
     IF st.tabs[i].path # NoPath THEN st.tabs[i].path = path
     ELSE st.tabs[i].name = BaseName(path)}

\* C31 as stated: a page load with an id in storage uses that id; a page
\* load with none generates one and leaves it in storage; no other event
\* changes the id of the page.
C31_StepAsStated ==
  LET e == hist'.last
  IN IF e.kind = "load" /\ e.client = "c1"
     THEN IF identity.stored # NoId
          THEN /\ identity'.CLIENT_ID = identity.stored
               /\ identity'.stored = identity.stored
          ELSE /\ identity'.CLIENT_ID \in GeneratedIds
               /\ identity'.stored = identity'.CLIENT_ID
     ELSE identity'.CLIENT_ID = identity.CLIENT_ID

C31_GetOrCreateAsStated == [][C31_StepAsStated]_vars

\* C31, amended: a page load with an id in storage uses that id; a page
\* load with none generates one, uses it, and leaves it in storage when the
\* storage accepts the write (otherwise storage stays empty); no other event
\* changes the id of the page.
C31_Step ==
  LET e == hist'.last
  IN IF e.kind = "load" /\ e.client = "c1"
     THEN IF identity.stored # NoId
          THEN /\ identity'.CLIENT_ID = identity.stored
               /\ identity'.stored = identity.stored
          ELSE /\ identity'.CLIENT_ID = e.args[2]
               /\ identity'.CLIENT_ID \in GeneratedIds
               /\ identity'.stored = IF e.args[3] THEN identity'.CLIENT_ID
                                     ELSE NoId
     ELSE identity'.CLIENT_ID = identity.CLIENT_ID

C31_GetOrCreate == [][C31_Step]_vars

\* a page load found the id that an earlier page load had generated and
\* stored, and used it although it was offered another one
C31_Witness ==
  /\ hist.last.kind = "load"
  /\ hist.last.args[1] \in GeneratedIds
  /\ hist.last.args[2] # hist.last.args[1]
  /\ identity.CLIENT_ID = hist.last.args[1]
  /\ identity.stored = hist.last.args[1]

\* C32: a change of the language selector or a tab selection, with every
\* effect it triggers, leaves every tab whose isCustomName flag is true in
\* place with the name it had.
C32_Step ==
  \A c \in Clients :
    (hist'.last.kind \in {"language", "select"} /\ hist'.last.client = c) =>
      \A i \in 1..Len(store[c].tabs) :
        store[c].tabs[i].isCustomName =>
          \E j \in 1..Len(store'[c].tabs) :
            /\ store'[c].tabs[j].id = store[c].tabs[i].id
            /\ store'[c].tabs[j].name = store[c].tabs[i].name
            /\ store'[c].tabs[j].isCustomName

C32_CustomNameKept == [][C32_Step]_vars

\* the language selector was changed while the first tab was a custom-named
\* tab with an empty buffer, whose name is not the default of the language
C32_Witness ==
  /\ hist.last.kind = "language"
  /\ store["c1"].tabs[1].isCustomName
  /\ store["c1"].tabs[1].content = ""
  /\ store["c1"].tabs[1].name = "a.js"
  /\ store["c1"].languageId = 71

\* C34: opening from the explorer a file that is already open in a tab
\* creates no second tab, makes that tab the active one, and leaves both the
\* tab's content and the editor buffer equal to the content just read.
C34_Step ==
  \A c \in Clients :
    (/\ hist'.last.kind = "preview"
     /\ hist'.last.client = c
     /\ OpenAt(store[c], hist'.last.args[1]) # {}) =>
      (/\ Len(store'[c].tabs) = Len(store[c].tabs)
       /\ \E i \in OpenAt(store[c], hist'.last.args[1]) :
            /\ store'[c].activeTabId = store'[c].tabs[i].id
            /\ store'[c].tabs[i].content = hist'.last.args[2]
       /\ store'[c].source = hist'.last.args[2])

C34_ReopenRefreshes == [][C34_Step]_vars

\* C35: after selectTab(id) for an existing tab and the effects it triggers,
\* that tab is the active tab and the tabs are the ones there were before,
\* with the names they had.
C35_Step ==
  \A c \in Clients :
    (hist'.last.kind = "select" /\ hist'.last.client = c) =>
      (/\ store'[c].activeTabId = hist'.last.arg
       /\ Len(store'[c].tabs) = Len(store[c].tabs)
       /\ \A i \in 1..Len(store[c].tabs) :
            /\ store'[c].tabs[i].id = store[c].tabs[i].id
            /\ store'[c].tabs[i].name = store[c].tabs[i].name)

C35_SelectOnlySelects == [][C35_Step]_vars

\* the tab list of st is the default tab that closeAll and deleteTab leave,
\* its buffer still empty
FreshDefault(st) ==
  st.tabs = <<NewTab(1, fileNaming(getMonacoLanguage(st.languageId)), "",
                     FALSE, st.languageId, NoPath)>>

\* C36: the default tab that closeAll, or deleteTab on the last tab, leaves
\* is not marked unsaved, and an auto-save tick sends no request for it
\* while its buffer is as the reset left it.
C36_Step ==
  \A c \in Clients :
    /\ (/\ hist'.last.kind \in {"closeAll", "deleted"}
        /\ hist'.last.client = c
        /\ FreshDefault(store'[c])) =>
         store'[c].tabs[1].id \notin store'[c].unsavedFiles
    /\ (/\ hist'.last.kind = "autosave"
        /\ hist'.last.client = c
        /\ FreshDefault(store[c])) =>
         fs'.pending = fs.pending

C36_FreshTabClean == [][C36_Step]_vars

\* the tabs of st whose path is p
TabsAt(st, p) == {i \in 1..Len(st.tabs) : st.tabs[i].path = p}

\* C37: no two open tabs have the same path (tabs without a path aside), and
\* when a read started from the explorer is answered there is exactly one
\* tab for its path, however many reads of that path were in flight.
C37_OneTabPerPath ==
  \A c \in Clients :
    /\ \A i \in 1..Len(store[c].tabs) :
         store[c].tabs[i].path # NoPath =>
           Cardinality(TabsAt(store[c], store[c].tabs[i].path)) = 1
    /\ (hist.last.kind = "previewed" /\ hist.last.client = c) =>
         Cardinality(TabsAt(store[c], hist.last.args[1])) = 1

\* the last event of c1 was the debounce timer sending the buffer as it is
PublishedLatest ==
  /\ hist.last.kind = "timer"
  /\ \E i \in 1..Len(hist.last.out) :
       /\ hist.last.out[i].msg.type = "edit"
       /\ hist.last.out[i].msg.filePath = ActivePath(store["c1"])
       /\ hist.last.out[i].msg.content = store["c1"].source

\* C38: whenever the channel is open and the user has edited since the last
\* publish (before or after the channel opened), the content of the active
\* file is eventually published, with no further keystroke needed.
C38_EditsEventuallyPublished ==
  (IsOpen(panel["c1"], 1) /\ hist.burst["c1"] > 0) ~> PublishedLatest

TypeOK ==
  /\ now \in 1..MaxTime
  /\ \A c \in Clients : Len(store[c].tabs) \in 1..MaxStoreTabs

====
